---- MODULE Spec2Model ----
(***************************************************************************)
(* Verification model of nojaja/dependency-extractor.                      *)
(*                                                                         *)
(* The repository holds an orchestrator (DependencyExtractorApp.run), a    *)
(* project detector on top of a directory walker, a CSV sink and several   *)
(* revisions of four extractors (NPM, Maven, Gradle, Composer).  Each      *)
(* component is modelled by its own group of variables and its own         *)
(* specification; a specification leaves the other groups idle.            *)
(***************************************************************************)
EXTENDS Integers, Sequences, FiniteSets, TLC

(***************************************************************************)
(* Bounds of the model.                                                    *)
(***************************************************************************)
MaxFiles == 3
MaxDeps == 2
MaxSegs == 2
MaxPkgs == 2
MaxEntries == 1

(***************************************************************************)
(* ProjectType / ProjectFiles tables of the detector.                      *)
(***************************************************************************)
ProjectType == {"Maven", "Gradle", "Composer", "NPM"}

ProjectFiles(type) ==
    CASE type = "Maven"    -> {"pom.xml"}
      [] type = "Gradle"   -> {"build.gradle", "build.gradle.kts"}
      [] type = "Composer" -> {"composer.json"}
      [] type = "NPM"      -> {"package.json"}

FileNames == {"pom.xml", "build.gradle", "build.gradle.kts",
              "composer.json", "package.json", "README.md"}

VARIABLES
    \* ---- streaming run (index.js, projectDetector.js, dirWalker.js) ----
    repoExists,         \* existsSync(repoPath)
    files,              \* regular files the walker reports, in walk order
    rpc,                \* position of run()
    idx,                \* index of the file the walker is at
    projectCount,       \* detectProjectsStreaming: projectCount
    totalProjects,      \* run: totalProjects
    totalDependencies,  \* run: totalDependencies
    initialized,        \* CsvHelper.initialized
    csvRows,            \* rows of the output file after the header
    finalized,          \* finalizeCsv has been called
    curDeps,            \* dependencies.length of the handler in flight
    extractCalls,       \* file indices whose extractor has been invoked
    appendCalls,        \* file indices whose batch was handed to the sink
    handlerResult,      \* how the handler of each handled file index ended
    \* ---- ComposerExtractor.extractDependencies (execa revision) ----
    cPath,              \* projectPath, as its separators and segments
    cJson,              \* composer.json of the project directory
    cLock,              \* composer.lock of the project directory
    cpc,                \* position of extractDependencies
    cDeps,              \* the dependencies array being filled
    cResult,            \* the returned list
    cSkipped,           \* the returned list carries _skip
    cCommands,          \* external commands invoked, in order
    cTried,             \* strategies entered, in order
    cShowOut,           \* what composer show answered
    \* ---- NpmExtractor (npm ls revision, src/extractors/npmExtractor.js) ----
    nCall,              \* the promise of extractDependenciesWithTimeout
    nPkg,               \* package.json of the project directory
    nLock,              \* package-lock.json of the project directory
    npc,                \* position of extractDependencies
    nProc,              \* the npm ls subprocess
    nLs,                \* how npm ls ended
    nResult,            \* the returned list
    nTried,             \* sources the records were taken from, in order
    \* ---- MavenExtractor (spawn revision with timeout, execa revision) ----
    mVariant,           \* which revision of the extractor runs
    mCall,              \* the promise of extractDependenciesWithTimeout
    mPom,               \* pom.xml of the project directory
    mEff,               \* effective-pom.xml of the project directory
    mpc,                \* position of extractDependencies
    mProc,              \* the mvn help:effective-pom subprocess
    mProcRef,           \* procRef.proc has been set
    mCmd,               \* how the effective-POM command ended
    mOutput,            \* effective-pom.xml existed when the command ended
    mProduced,          \* the command wrote effective-pom.xml
    mResult,            \* the returned list
    mCommands,          \* external commands invoked, in order
    \* ---- GradleExtractor (execa revision, exec revision) ----
    gVariant,           \* which revision of the extractor runs
    gFile,              \* the build file of the project directory
    gpc,                \* position of extractDependencies
    gCmd,               \* how the gradle dependencies command ended
    gStdout,            \* the dependency lines of its output
    gResult,            \* the returned list
    gCommands,          \* external commands invoked, in order
    \* ---- projectPath of the emitted records (all extractors) ----
    tType,              \* project.type
    tRel,               \* project.relativePath, as its segments
    tGroovy,            \* build.gradle exists in the project directory
    tSource,            \* the strategy that produces the record
    tpc,                \* position of the extraction
    tProjectPath,       \* projectPath of the record pushed
    \* ---- CsvHelper (src/utils/csvHelper.js) ----
    kOption,            \* the outputPath option, as its segments
    kOutputPath,        \* CsvHelper.outputPath
    kInitialized,       \* CsvHelper.initialized
    kFiles,             \* contents (lines) of the files written, by path
    kpc,                \* position of the sink's user
    kCalls,             \* batches handed to appendDependenciesToCsv, in order
    kReturned,          \* what finalizeCsv returned
    kRejected,          \* calls that threw for want of initializeCsv, in order
    \* ---- DirWalker.walk (src/utils/dirWalker.js) ----
    wTree,              \* the directory tree under targetPath
    wpc,                \* position of _walk
    wPos,               \* indices of the entry at hand: root entry, child
    wCounter,           \* DirWalker.counter
    wCalled,            \* paths handed to fileCallback, in order
    wErrored,           \* paths whose error reached errCallback, in order
    wReturned,          \* what walk returned
    \* ---- ProjectDetector.detectProjects / detectProjectsStreaming ----
    dMode,              \* which of the two methods runs
    dFiles,             \* relative paths the walker reports, in walk order
    dIdx,               \* index of the file the walker is at
    dpc,                \* position of the method
    dProjects,          \* the projects created, in order
    dThrown,            \* indices of the files whose project callback threw
    dProjectCount,      \* detectProjectsStreaming: projectCount
    dResult,            \* the list size / count returned
    \* ---- NpmExtractor (npm install revision, execa) ----
    xPath,              \* projectPath, as its separators and segments
    xSkipped,           \* the returned list carries _skip
    xPkg,               \* package.json of the project directory
    xLock,              \* package-lock.json of the project directory
    xLockAtStart,       \* package-lock.json existed when extraction started
    xpc,                \* position of extractDependencies
    xInstall,           \* how npm install ended
    xResult,            \* the returned list
    xCommands,          \* external commands invoked, in order
    \* ---- a second extractDependencies call on the same directory ----
    aRun,               \* 1 during the first call, 2 during the second
    aFirst,             \* the list the first call returned
    aOut,               \* how the external command ended in the first call
    aFile,              \* the generated file as the first call left it
    \* ---- two overlapping extractDependenciesWithTimeout calls ----
    oKind,              \* per call: the extractor it runs
    oCall,              \* per call: the promise of extractDependenciesWithTimeout
    opc,                \* per call: position of extractDependencies
    oRef,               \* per procRef object: the call whose subprocess it holds
    oProc,              \* per call: the subprocess the call spawned
    oKilledBy,          \* per call: the call whose timer killed its subprocess
    oResult,            \* per call: what extractDependencies returned
    \* ---- two walk calls on one DirWalker instance ----
    sCounter,           \* DirWalker.counter of the instance
    spc,                \* per call: position of walk
    sLeft,              \* per call: files of its tree not yet reported
    sOwn,               \* per call: file callbacks the call has invoked
    sReturned,          \* per call: what walk returned
    \* ---- DirWalker.walk on a tree with links to its root ----
    lTree,              \* the entries of the root directory, in readdir order
    lStack,             \* the _walk calls in progress, outermost first
    lpc,                \* position of walk
    lEloop              \* fs.stat has rejected a path for its links

runVars == <<repoExists, files, rpc, idx, projectCount, totalProjects,
             totalDependencies, initialized, csvRows, finalized, curDeps,
             extractCalls, appendCalls, handlerResult>>

composerVars == <<cPath, cJson, cLock, cpc, cDeps, cResult, cSkipped,
                  cCommands, cTried, cShowOut>>

npmVars == <<nCall, nPkg, nLock, npc, nProc, nLs, nResult, nTried>>

mavenVars == <<mVariant, mCall, mPom, mEff, mpc, mProc, mProcRef, mCmd,
               mOutput, mProduced, mResult, mCommands>>

gradleVars == <<gVariant, gFile, gpc, gCmd, gStdout, gResult, gCommands>>

tagVars == <<tType, tRel, tGroovy, tSource, tpc, tProjectPath>>

csvVars == <<kOption, kOutputPath, kInitialized, kFiles, kpc, kCalls, kReturned, kRejected>>

walkVars == <<wTree, wpc, wPos, wCounter, wCalled, wErrored, wReturned>>

detectVars == <<dMode, dFiles, dIdx, dpc, dProjects, dThrown, dProjectCount, dResult>>

npmInstallVars == <<xPath, xSkipped, xPkg, xLock, xLockAtStart, xpc, xInstall, xResult, xCommands>>

againVars == <<aRun, aFirst, aOut, aFile>>

overlapVars == <<oKind, oCall, opc, oRef, oProc, oKilledBy, oResult>>

sharedVars == <<sCounter, spc, sLeft, sOwn, sReturned>>

loopVars == <<lTree, lStack, lpc, lEloop>>

vars == <<runVars, composerVars, npmVars, mavenVars, gradleVars, tagVars, csvVars, walkVars, detectVars, npmInstallVars, againVars, overlapVars, sharedVars, loopVars>>

\* the variables of the components other than the named one
notRun == <<composerVars, npmVars, mavenVars, gradleVars, tagVars, csvVars, walkVars, detectVars, npmInstallVars, againVars, overlapVars, sharedVars, loopVars>>
notComposer == <<runVars, npmVars, mavenVars, gradleVars, tagVars, csvVars, walkVars, detectVars, npmInstallVars, againVars, overlapVars, sharedVars, loopVars>>
notNpm == <<runVars, composerVars, mavenVars, gradleVars, tagVars, csvVars, walkVars, detectVars, npmInstallVars, againVars, overlapVars, sharedVars, loopVars>>
notMaven == <<runVars, composerVars, npmVars, gradleVars, tagVars, csvVars, walkVars, detectVars, npmInstallVars, againVars, overlapVars, sharedVars, loopVars>>
notGradle == <<runVars, composerVars, npmVars, mavenVars, tagVars, csvVars, walkVars, detectVars, npmInstallVars, againVars, overlapVars, sharedVars, loopVars>>
notTag == <<runVars, composerVars, npmVars, mavenVars, gradleVars, csvVars, walkVars, detectVars, npmInstallVars, againVars, overlapVars, sharedVars, loopVars>>
notCsv == <<runVars, composerVars, npmVars, mavenVars, gradleVars, tagVars, walkVars, detectVars, npmInstallVars, againVars, overlapVars, sharedVars, loopVars>>
notWalk == <<runVars, composerVars, npmVars, mavenVars, gradleVars, tagVars, csvVars, detectVars, npmInstallVars, againVars, overlapVars, sharedVars, loopVars>>
notDetect == <<runVars, composerVars, npmVars, mavenVars, gradleVars, tagVars, csvVars, walkVars, npmInstallVars, againVars, overlapVars, sharedVars, loopVars>>
notNpmInstall == <<runVars, composerVars, npmVars, mavenVars, gradleVars, tagVars, csvVars, walkVars, detectVars, againVars, overlapVars, sharedVars, loopVars>>
notAgain == <<runVars, composerVars, npmVars, mavenVars, gradleVars, tagVars, csvVars, walkVars, detectVars, npmInstallVars, overlapVars, sharedVars, loopVars>>
notOverlap == <<runVars, composerVars, npmVars, mavenVars, gradleVars, tagVars, csvVars, walkVars, detectVars, npmInstallVars, againVars, sharedVars, loopVars>>
notShared == <<runVars, composerVars, npmVars, mavenVars, gradleVars, tagVars, csvVars, walkVars, detectVars, npmInstallVars, againVars, overlapVars, loopVars>>
notLoop == <<runVars, composerVars, npmVars, mavenVars, gradleVars, tagVars, csvVars, walkVars, detectVars, npmInstallVars, againVars, overlapVars, sharedVars>>

(***************************************************************************)
(* Streaming run.                                                          *)
(***************************************************************************)
\* for (const [type, files] of Object.entries(ProjectFiles)) if (files.includes(fileName))
MatchingTypes(fileName) == {t \in ProjectType : fileName \in ProjectFiles(t)}

\* switch (project.type) of projectCallback: the extractor a type is sent to
Dispatch(type) ==
    CASE type = "NPM"      -> "npmExtractor"
      [] type = "Maven"    -> "mavenExtractor"
      [] type = "Gradle"   -> "gradleExtractor"
      [] type = "Composer" -> "composerExtractor"
      [] OTHER             -> "none"

\* the try/catch that encloses the whole for loop of _walk, taken for the one
\* inside the loop body: a failed handler ends the walk of the directory
ContinueAfter_break(i, failed) == IF failed THEN Len(files) + 1 ELSE i + 1

\* A handler that threw is caught inside the loop body (projectCallback,
\* fileCallback and _walk each catch): the walk goes on with the next entry.
ContinueAfter(i, failed) == i + 1

\* a file callback that is started and not awaited: the for loop of _walk
\* goes on to the next entry while the handler runs
WhileHandling_unawaited(i) == i + 1

\* await fileCallback(relativePath, settings) and await projectCallback(project):
\* the for loop of _walk stays at the entry until its handler has settled
WhileHandling(i) == i

\* handlerResult with the outcome of the handler of file i recorded
Ended(i, how) == [j \in (DOMAIN handlerResult) \cup {i} |->
                    IF j = i THEN how ELSE handlerResult[j]]

RunInit ==
    /\ repoExists \in BOOLEAN
    /\ files \in UNION {[1..n -> FileNames] : n \in 0..MaxFiles}
    /\ rpc = "start"
    /\ idx = 1
    /\ projectCount = 0
    /\ totalProjects = 0
    /\ totalDependencies = 0
    /\ initialized = FALSE
    /\ csvRows = <<>>
    /\ finalized = FALSE
    /\ curDeps = 0
    /\ extractCalls = {}
    /\ appendCalls = {}
    /\ handlerResult = <<>>

\* run without the existsSync(repoPath) check: the walk of a missing root
\* only reports a directory read error
RunMissingRoot_unchecked ==
    /\ UNCHANGED notRun
    /\ rpc = "start"
    /\ ~repoExists
    /\ rpc' = "walk"
    /\ UNCHANGED <<repoExists, files, idx, projectCount, totalProjects,
                   totalDependencies, initialized, csvRows, finalized,
                   curDeps, extractCalls, appendCalls, handlerResult>>

\* run: the input root does not exist
RunMissingRoot ==
    /\ UNCHANGED notRun
    /\ rpc = "start"
    /\ ~repoExists
    /\ rpc' = "rejected"
    /\ UNCHANGED <<repoExists, files, idx, projectCount, totalProjects,
                   totalDependencies, initialized, csvRows, finalized,
                   curDeps, extractCalls, appendCalls, handlerResult>>

\* run: await this.csvHelper.initializeCsv()
InitializeCsv ==
    /\ UNCHANGED notRun
    /\ rpc = "start"
    /\ repoExists
    /\ \E ok \in BOOLEAN :
         IF ok
           THEN /\ initialized' = TRUE
                /\ rpc' = "walk"
           ELSE /\ initialized' = FALSE
                /\ rpc' = "rejected"
    /\ csvRows' = <<>>
    /\ UNCHANGED <<repoExists, files, idx, projectCount, totalProjects,
                   totalDependencies, finalized, curDeps, extractCalls,
                   appendCalls, handlerResult>>

\* DirWalker._walk reports the next file; fileCallback of
\* detectProjectsStreaming matches it and enters projectCallback
WalkFile ==
    /\ UNCHANGED notRun
    /\ rpc = "walk"
    /\ idx <= Len(files)
    /\ LET types == MatchingTypes(files[idx]) IN
         IF types = {}
           THEN /\ idx' = idx + 1
                /\ UNCHANGED <<rpc, projectCount, totalProjects, extractCalls,
                               handlerResult>>
           ELSE LET type == CHOOSE t \in types : TRUE IN
                /\ projectCount' = projectCount + 1
                /\ totalProjects' = totalProjects + 1
                /\ IF Dispatch(type) = "none"
                     THEN /\ idx' = idx + 1
                          /\ handlerResult' = Ended(idx, "unsupported")
                          /\ UNCHANGED <<rpc, extractCalls>>
                     ELSE /\ rpc' = "extract"
                          /\ extractCalls' = extractCalls \cup {idx}
                          /\ idx' = WhileHandling(idx)
                          /\ UNCHANGED handlerResult
    /\ UNCHANGED <<repoExists, files, totalDependencies, initialized, csvRows,
                   finalized, curDeps, appendCalls>>

\* projectCallback: the awaited extractDependencies throws
ExtractThrows ==
    /\ UNCHANGED notRun
    /\ rpc = "extract"
    /\ rpc' = "walk"
    /\ idx' = ContinueAfter(idx, TRUE)
    /\ handlerResult' = Ended(idx, "extractFailed")
    /\ UNCHANGED <<repoExists, files, projectCount, totalProjects,
                   totalDependencies, initialized, csvRows, finalized,
                   curDeps, extractCalls, appendCalls>>

\* projectCallback: the awaited extractDependencies returns a list
ExtractReturns ==
    /\ UNCHANGED notRun
    /\ rpc = "extract"
    /\ \E n \in 0..MaxDeps :
         IF n > 0
           THEN /\ rpc' = "append"
                /\ curDeps' = n
                /\ appendCalls' = appendCalls \cup {idx}
                /\ UNCHANGED <<idx, handlerResult>>
           ELSE /\ rpc' = "walk"
                /\ idx' = ContinueAfter(idx, FALSE)
                /\ handlerResult' = Ended(idx, "empty")
                /\ UNCHANGED <<curDeps, appendCalls>>
    /\ UNCHANGED <<repoExists, files, projectCount, totalProjects,
                   totalDependencies, initialized, csvRows, finalized,
                   extractCalls>>

\* the total raised before the append is awaited
TotalAfterAppend_early(total, n, appended) == total + n

\* totalDependencies += dependencies.length, the statement after the awaited
\* appendDependenciesToCsv: skipped when the append throws
TotalAfterAppend(total, n, appended) == IF appended THEN total + n ELSE total

\* projectCallback: the awaited appendDependenciesToCsv returns or throws
AppendReturns ==
    /\ UNCHANGED notRun
    /\ rpc = "append"
    /\ \E ok \in BOOLEAN :
         /\ totalDependencies' = TotalAfterAppend(totalDependencies, curDeps, ok /\ initialized)
         /\ IF ok /\ initialized
              THEN /\ csvRows' = csvRows \o [k \in 1..curDeps |-> idx]
                   /\ idx' = ContinueAfter(idx, FALSE)
                   /\ handlerResult' = Ended(idx, "appended")
              ELSE /\ idx' = ContinueAfter(idx, TRUE)
                   /\ handlerResult' = Ended(idx, "appendFailed")
                   /\ UNCHANGED csvRows
    /\ rpc' = "walk"
    /\ curDeps' = 0
    /\ UNCHANGED <<repoExists, files, projectCount, totalProjects,
                   initialized, finalized, extractCalls, appendCalls>>

\* run that finalizes the sink whatever was found
ShouldFinalize_always(detectedProjects, total) == TRUE

\* if (detectedProjects === 0) return; if (totalDependencies > 0) finalizeCsv()
ShouldFinalize(detectedProjects, total) == detectedProjects # 0 /\ total > 0

\* the walk is over: detectProjectsStreaming returns projectCount and run
\* finalizes the sink when something was appended
RunFinish ==
    /\ UNCHANGED notRun
    /\ rpc = "walk"
    /\ idx > Len(files)
    /\ rpc' = "done"
    /\ finalized' = ShouldFinalize(projectCount, totalDependencies)
    /\ UNCHANGED <<repoExists, files, idx, projectCount, totalProjects,
                   totalDependencies, initialized, csvRows, curDeps,
                   extractCalls, appendCalls, handlerResult>>

RunNext ==
    \/ RunMissingRoot
    \/ InitializeCsv
    \/ WalkFile
    \/ ExtractThrows
    \/ ExtractReturns
    \/ AppendReturns
    \/ RunFinish

RunIdle ==
    /\ repoExists = FALSE
    /\ files = <<>>
    /\ rpc = "idle"
    /\ idx = 1
    /\ projectCount = 0
    /\ totalProjects = 0
    /\ totalDependencies = 0
    /\ initialized = FALSE
    /\ csvRows = <<>>
    /\ finalized = FALSE
    /\ curDeps = 0
    /\ extractCalls = {}
    /\ appendCalls = {}
    /\ handlerResult = <<>>

(***************************************************************************)
(* Paths and vendored directories.  A path is the sequence of its          *)
(* separators and segments, so that String.includes is a search for a      *)
(* contiguous run of them.                                                 *)
(***************************************************************************)
Sep == "/"

\* path.dirname(path.join(repoPath, relativePath)): segments joined by the
\* separator, a leading separator when the path is absolute, none trailing
JoinSegs(segs) ==
    [i \in 1..(2 * Len(segs) - 1) |->
        IF i % 2 = 1 THEN segs[(i + 1) \div 2] ELSE Sep]

PathOf(abs, segs) == IF abs THEN <<Sep>> \o JoinSegs(segs) ELSE JoinSegs(segs)

\* String.prototype.includes
Includes(str, sub) ==
    \E i \in 1..(Len(str) - Len(sub) + 1) :
        SubSeq(str, i, i + Len(sub) - 1) = sub

\* projectPath.includes('/name/') || projectPath.includes('\\name\\')
UnderVendored(projectPath, name) ==
    \/ Includes(projectPath, <<"/", name, "/">>)
    \/ Includes(projectPath, <<"\\", name, "\\">>)

\* the path has a segment equal to name, at any position
HasSegment(projectPath, name) == \E i \in 1..Len(projectPath) : projectPath[i] = name

ProjectPaths(names) ==
    {PathOf(abs, segs) : abs \in BOOLEAN,
                         segs \in UNION {[1..n -> names] : n \in 1..MaxSegs}}

(***************************************************************************)
(* ComposerExtractor.extractDependencies, the revision that runs composer  *)
(* install and then tries composer show, composer.lock and composer.json.  *)
(***************************************************************************)
PkgNames == {"php", "guzzlehttp/guzzle"}

\* a JSON array of packages; the entry "null" stands for an element that is
\* not an object, on which pkg.name throws
PkgArrays == UNION {[1..n -> PkgNames \cup {"null"}] : n \in 0..MaxPkgs}

\* the keys of a JSON object, in source order (keys are distinct)
PkgMaps == {m \in UNION {[1..n -> PkgNames] : n \in 0..Cardinality(PkgNames)} :
               \A i, j \in 1..Len(m) : i # j => m[i] # m[j]}

ComposerJsons ==
    {[exists |-> FALSE, ok |-> FALSE, require |-> <<>>, requireDev |-> <<>>],
     [exists |-> TRUE, ok |-> FALSE, require |-> <<>>, requireDev |-> <<>>]}
    \cup [exists : {TRUE}, ok : {TRUE}, require : PkgMaps, requireDev : PkgMaps]

ComposerLocks ==
    {[exists |-> FALSE, ok |-> FALSE, hasPackages |-> FALSE, packages |-> <<>>],
     [exists |-> TRUE, ok |-> FALSE, hasPackages |-> FALSE, packages |-> <<>>],
     [exists |-> TRUE, ok |-> TRUE, hasPackages |-> FALSE, packages |-> <<>>]}
    \cup [exists : {TRUE}, ok : {TRUE}, hasPackages : {TRUE}, packages : PkgArrays]

\* what the awaited composer show can do: reject (non-zero exit, spawn
\* error), time out, print something that is not JSON, print JSON without an
\* installed array, or print an installed array
ShowOutcomes ==
    [st : {"failed", "timedOut", "badJson", "noInstalled"}, installed : {<<>>}]
    \cup [st : {"ok"}, installed : PkgArrays]

NoShow == [st |-> "none", installed |-> <<>>]

Dep(src, name, isDev) == [src |-> src, name |-> name, isDev |-> isDev]

\* the elements a for...of loop pushes before pkg.name throws on a null one
RECURSIVE BeforeNull(_)
BeforeNull(arr) ==
    IF arr = <<>> \/ Head(arr) = "null" THEN <<>>
    ELSE <<Head(arr)>> \o BeforeNull(Tail(arr))

HasNull(arr) == \E i \in 1..Len(arr) : arr[i] = "null"

PushAll(src, arr, isDev) == [i \in 1..Len(arr) |-> Dep(src, arr[i], isDev)]

\* for (const [name, version] of Object.entries(composerData.require)) if (name !== 'php')
RequireDeps(require) == PushAll("manifest", SelectSeq(require, LAMBDA n : n # "php"), FALSE)

RequireDevDeps(requireDev) == PushAll("manifest", requireDev, TRUE)

ComposerInit ==
    /\ cPath \in ProjectPaths({"app", "vendor"})
    /\ cJson \in ComposerJsons
    /\ cLock \in ComposerLocks
    /\ cpc = "start"
    /\ cDeps = <<>>
    /\ cResult = <<>>
    /\ cSkipped = FALSE
    /\ cCommands = <<>>
    /\ cTried = <<>>
    /\ cShowOut = NoShow

ComposerIdle ==
    /\ cPath = <<>>
    /\ cJson = [exists |-> FALSE, ok |-> FALSE, require |-> <<>>, requireDev |-> <<>>]
    /\ cLock = [exists |-> FALSE, ok |-> FALSE, hasPackages |-> FALSE, packages |-> <<>>]
    /\ cpc = "idle"
    /\ cDeps = <<>>
    /\ cResult = <<>>
    /\ cSkipped = FALSE
    /\ cCommands = <<>>
    /\ cTried = <<>>
    /\ cShowOut = NoShow

\* the vendor check; when it does not skip, composer install is started
ComposerStart ==
    /\ UNCHANGED notComposer
    /\ cpc = "start"
    /\ IF UnderVendored(cPath, "vendor")
         THEN /\ cSkipped' = TRUE
              /\ cResult' = <<>>
              /\ cpc' = "done"
              /\ UNCHANGED cCommands
         ELSE /\ cCommands' = Append(cCommands, "install")
              /\ cpc' = "install"
              /\ UNCHANGED <<cSkipped, cResult>>
    /\ UNCHANGED <<cPath, cJson, cLock, cDeps, cTried, cShowOut>>

\* the awaited composer install returns or throws (both are only logged); it
\* may have written composer.lock.  Then composer.json is required and
\* composer show is started.
ComposerInstalled ==
    /\ UNCHANGED notComposer
    /\ cpc = "install"
    /\ \E wroteLock \in BOOLEAN, lock \in ComposerLocks :
         cLock' = IF wroteLock /\ cJson.exists /\ cJson.ok /\ ~cLock.exists
                     /\ lock.exists /\ lock.ok /\ lock.hasPackages
                     /\ ~HasNull(lock.packages)
                    THEN lock ELSE cLock
    /\ IF ~cJson.exists
         THEN /\ cResult' = <<>>
              /\ cpc' = "done"
              /\ UNCHANGED <<cCommands, cTried>>
         ELSE /\ cCommands' = Append(cCommands, "show")
              /\ cTried' = Append(cTried, "show")
              /\ cpc' = "show"
              /\ UNCHANGED cResult
    /\ UNCHANGED <<cPath, cJson, cDeps, cSkipped, cShowOut>>

\* the awaited composer show returns or throws
ComposerShown ==
    /\ UNCHANGED notComposer
    /\ cpc = "show"
    /\ \E out \in ShowOutcomes :
         /\ cShowOut' = out
         /\ IF out.st = "ok"
              THEN LET pushed == cDeps \o PushAll("show", BeforeNull(out.installed), FALSE) IN
                   /\ cDeps' = pushed
                   /\ IF HasNull(out.installed)
                        THEN /\ cpc' = "lock"
                             /\ UNCHANGED cResult
                        ELSE /\ cResult' = pushed
                             /\ cpc' = "done"
              ELSE /\ cpc' = "lock"
                   /\ UNCHANGED <<cDeps, cResult>>
    /\ UNCHANGED <<cPath, cJson, cLock, cSkipped, cCommands, cTried>>

\* composer.lock: existsSync, then the awaited readFile and the parse
ComposerLockRead ==
    /\ UNCHANGED notComposer
    /\ cpc = "lock"
    /\ IF ~cLock.exists
         THEN /\ cpc' = "manifest"
              /\ UNCHANGED <<cDeps, cResult, cTried>>
         ELSE /\ cTried' = Append(cTried, "lock")
              /\ IF ~cLock.ok \/ ~cLock.hasPackages
                   THEN /\ cpc' = IF cLock.ok /\ Len(cDeps) > 0 THEN "done" ELSE "manifest"
                        /\ cResult' = IF cLock.ok /\ Len(cDeps) > 0 THEN cDeps ELSE cResult
                        /\ UNCHANGED cDeps
                   ELSE LET pushed == cDeps \o PushAll("lock", BeforeNull(cLock.packages), FALSE) IN
                        /\ cDeps' = pushed
                        /\ IF ~HasNull(cLock.packages) /\ Len(pushed) > 0
                             THEN /\ cResult' = pushed
                                  /\ cpc' = "done"
                             ELSE /\ cpc' = "manifest"
                                  /\ UNCHANGED cResult
    /\ UNCHANGED <<cPath, cJson, cLock, cSkipped, cCommands, cShowOut>>

\* composer.json: the awaited readFile and the parse, require then require-dev
ComposerManifestRead ==
    /\ UNCHANGED notComposer
    /\ cpc = "manifest"
    /\ cTried' = Append(cTried, "manifest")
    /\ LET pushed == IF cJson.ok
                       THEN cDeps \o RequireDeps(cJson.require)
                                  \o RequireDevDeps(cJson.requireDev)
                       ELSE cDeps IN
         /\ cDeps' = pushed
         /\ cResult' = pushed
    /\ cpc' = "done"
    /\ UNCHANGED <<cPath, cJson, cLock, cSkipped, cCommands, cShowOut>>

ComposerNext ==
    \/ ComposerStart
    \/ ComposerInstalled
    \/ ComposerShown
    \/ ComposerLockRead
    \/ ComposerManifestRead

(***************************************************************************)
(* NpmExtractor, the revision that runs npm ls and then reads              *)
(* package-lock.json and package.json; extractDependenciesWithTimeout      *)
(* races the extraction against a timer.                                   *)
(***************************************************************************)
NpmNames == {"lodash", "jest"}

\* a value of the dependencies map of package.json: a range string, or an
\* object marked missing
ManifestValues == {"^4.17.21", "MISSING"}

NameOf(e) == e.name

KeyOf(e) == e.key

\* the keys of a JSON object are distinct
UniqueNames(seq) == \A i, j \in 1..Len(seq) : i # j => NameOf(seq[i]) # NameOf(seq[j])

UniqueKeys(seq) == \A i, j \in 1..Len(seq) : i # j => KeyOf(seq[i]) # KeyOf(seq[j])

\* Object.entries of a dependencies / devDependencies map
ManifestMaps ==
    {m \in UNION {[1..n -> [name : NpmNames, value : ManifestValues]] : n \in 0..MaxEntries} :
        UniqueNames(m)}

NoPkg == [exists |-> FALSE, ok |-> FALSE, dependencies |-> <<>>, devDependencies |-> <<>>]

PackageJsons ==
    {NoPkg, [NoPkg EXCEPT !.exists = TRUE]}
    \cup [exists : {TRUE}, ok : {TRUE}, dependencies : ManifestMaps,
          devDependencies : ManifestMaps]

\* nested lockfile: name -> {version, dev, dependencies}
V2Leaves == [name : NpmNames, dev : BOOLEAN, dependencies : {<<>>}]

V2Subs == {m \in UNION {[1..n -> V2Leaves] : n \in 0..(MaxPkgs - 1)} : UniqueNames(m)}

V2Nodes == [name : NpmNames, dev : BOOLEAN, dependencies : V2Subs]

RECURSIVE TreeSize(_)
TreeSize(tree) ==
    IF tree = <<>> THEN 0
    ELSE 1 + TreeSize(Head(tree).dependencies) + TreeSize(Tail(tree))

V2Trees ==
    {m \in UNION {[1..n -> V2Nodes] : n \in 0..MaxPkgs} :
        UniqueNames(m) /\ TreeSize(m) <= MaxPkgs}

\* flat lockfile: path key -> {version, dev}; the key is held as its
\* separators and segments, the empty key is the root project
V3Keys == {<<>>,
           <<"node_modules", "/", "lodash">>,
           <<"node_modules", "/", "jest", "/", "node_modules", "/", "lodash">>,
           <<"packages", "/", "app">>}

V3Maps ==
    {m \in UNION {[1..n -> [key : V3Keys, dev : BOOLEAN]] : n \in 0..MaxPkgs} :
        UniqueKeys(m)}

NoLock == [exists |-> FALSE, ok |-> FALSE, shape |-> "none", v2 |-> <<>>, v3 |-> <<>>]

PackageLocks ==
    {NoLock, [NoLock EXCEPT !.exists = TRUE],
     [NoLock EXCEPT !.exists = TRUE, !.ok = TRUE]}
    \cup [exists : {TRUE}, ok : {TRUE}, shape : {"v2"}, v2 : V2Trees, v3 : {<<>>}]
    \cup [exists : {TRUE}, ok : {TRUE}, shape : {"v3"}, v2 : {<<>>}, v3 : V3Maps]

NpmDep(src, name, version, isDev) ==
    [src |-> src, name |-> name, version |-> version, isDev |-> isDev]

\* _processPackageLockDependencies: a record per entry, then its subtree
RECURSIVE ProcessPackageLockDependencies(_)
ProcessPackageLockDependencies(tree) ==
    IF tree = <<>> THEN <<>>
    ELSE <<NpmDep("lock", <<Head(tree).name>>, "1.0.0", Head(tree).dev)>>
         \o ProcessPackageLockDependencies(Head(tree).dependencies)
         \o ProcessPackageLockDependencies(Tail(tree))

StartsWith(str, prefix) ==
    Len(str) >= Len(prefix) /\ SubSeq(str, 1, Len(prefix)) = prefix

\* String.prototype.lastIndexOf, 1-based; 0 when there is no occurrence
LastIndexOf(str, sub) ==
    LET occ == {i \in 1..(Len(str) - Len(sub) + 1) : SubSeq(str, i, i + Len(sub) - 1) = sub}
    IN IF occ = {} THEN 0 ELSE CHOOSE i \in occ : \A j \in occ : j <= i

\* the name taken after the first node_modules/ only
V3Name_first(pkgPath) ==
    IF StartsWith(pkgPath, <<"node_modules", "/">>)
      THEN SubSeq(pkgPath, 3, Len(pkgPath)) ELSE pkgPath

\* the package name of a key of the flat lockfile
V3Name(pkgPath) ==
    LET pkgName == IF StartsWith(pkgPath, <<"node_modules", "/">>)
                     THEN SubSeq(pkgPath, 3, Len(pkgPath)) ELSE pkgPath
        marker == <<"/", "node_modules", "/">>
    IN IF Includes(pkgName, marker)
         THEN SubSeq(pkgName, LastIndexOf(pkgName, marker) + Len(marker), Len(pkgName))
         ELSE pkgName

\* _processPackageLockV3Dependencies: the root key is skipped
RECURSIVE ProcessPackageLockV3Dependencies(_)
ProcessPackageLockV3Dependencies(packages) ==
    IF packages = <<>> THEN <<>>
    ELSE (IF Head(packages).key = <<>> THEN <<>>
          ELSE <<NpmDep("lock", V3Name(Head(packages).key), "1.0.0", Head(packages).dev)>>)
         \o ProcessPackageLockV3Dependencies(Tail(packages))

LockDeps(lock) ==
    CASE lock.shape = "v2" -> ProcessPackageLockDependencies(lock.v2)
      [] lock.shape = "v3" -> ProcessPackageLockV3Dependencies(lock.v3)
      [] OTHER -> <<>>

\* for (const [name, version] of Object.entries(map)): missing entries skipped
RECURSIVE ManifestEntries(_, _)
ManifestEntries(map, isDev) ==
    IF map = <<>> THEN <<>>
    ELSE (IF Head(map).value = "MISSING" THEN <<>>
          ELSE <<NpmDep("manifest", <<Head(map).name>>, Head(map).value, isDev)>>)
         \o ManifestEntries(Tail(map), isDev)

ManifestDeps(pkg) ==
    ManifestEntries(pkg.dependencies, FALSE) \o ManifestEntries(pkg.devDependencies, TRUE)

\* how the npm ls subprocess can end: exit code 0, a non-zero exit code with
\* JSON, other text or nothing on stdout, or a spawn error
LsOutcomes == {"exit0", "failedJson", "failedText", "failedEmpty", "spawnError"}

NpmInit ==
    /\ nCall \in {"none", "pending"}
    /\ nPkg \in PackageJsons
    /\ nLock \in PackageLocks
    /\ npc = "start"
    /\ nProc = "none"
    /\ nLs = "none"
    /\ nResult = <<>>
    /\ nTried = <<>>

NpmIdle ==
    /\ nCall = "none"
    /\ nPkg = NoPkg
    /\ nLock = NoLock
    /\ npc = "idle"
    /\ nProc = "none"
    /\ nLs = "none"
    /\ nResult = <<>>
    /\ nTried = <<>>

\* extractDependencies returns list: a pending timeout promise resolves
NpmReturn(list) ==
    /\ nResult' = list
    /\ npc' = "done"
    /\ nCall' = IF nCall = "pending" THEN "resolved" ELSE nCall

\* the outer catch without its final return: the error leaves the method
NpmCatch_rethrow ==
    /\ npc' = "threw"
    /\ nCall' = IF nCall = "pending" THEN "rejected" ELSE nCall
    /\ UNCHANGED nResult

\* the outer catch (and the inner catch of the re-read) ends in return []
NpmCatch == NpmReturn(<<>>)

\* package.json is required, then npm ls is spawned
NpmStart ==
    /\ UNCHANGED notNpm
    /\ npc = "start"
    /\ IF ~nPkg.exists
         THEN /\ NpmReturn(<<>>)
              /\ UNCHANGED nProc
         ELSE /\ nProc' = "running"
              /\ npc' = "ls"
              /\ UNCHANGED <<nResult, nCall>>
    /\ UNCHANGED <<nPkg, nLock, nLs, nTried>>

\* the subprocess closes (or fails to spawn): the awaited promise settles
NpmLsClosed ==
    /\ UNCHANGED notNpm
    /\ npc = "ls"
    /\ nProc = "running"
    /\ nProc' = "closed"
    /\ \E out \in LsOutcomes :
         /\ nLs' = out
         /\ CASE out = "exit0" ->
                   /\ npc' = "readPkg"
                   /\ UNCHANGED <<nResult, nCall>>
              [] out = "failedJson" ->
                   /\ npc' = "catchRead"
                   /\ UNCHANGED <<nResult, nCall>>
              [] OTHER -> NpmCatch
    /\ UNCHANGED <<nPkg, nLock, nTried>>

\* the awaited readFile of package.json, then existsSync(package-lock.json)
NpmPkgRead ==
    /\ UNCHANGED notNpm
    /\ npc = "readPkg"
    /\ IF ~nPkg.ok
         THEN /\ NpmCatch
              /\ UNCHANGED nTried
         ELSE IF nLock.exists
           THEN /\ npc' = "readLock"
                /\ UNCHANGED <<nResult, nCall, nTried>>
           ELSE /\ NpmReturn(ManifestDeps(nPkg))
                /\ nTried' = Append(nTried, "manifest")
    /\ UNCHANGED <<nPkg, nLock, nProc, nLs>>

\* the awaited readFile of package-lock.json and its processing; a read or
\* parse error falls through to the manifest
NpmLockRead ==
    /\ UNCHANGED notNpm
    /\ npc = "readLock"
    /\ IF nLock.ok
         THEN /\ NpmReturn(LockDeps(nLock))
              /\ nTried' = Append(nTried, "lock")
         ELSE /\ NpmReturn(ManifestDeps(nPkg))
              /\ nTried' = nTried \o <<"lock", "manifest">>
    /\ UNCHANGED <<nPkg, nLock, nProc, nLs>>

\* the catch block after a failed npm ls whose stdout parses: package.json
\* is read again and its maps are returned
NpmCatchRead ==
    /\ UNCHANGED notNpm
    /\ npc = "catchRead"
    /\ IF nPkg.ok
         THEN /\ NpmReturn(ManifestDeps(nPkg))
              /\ nTried' = Append(nTried, "manifest")
         ELSE /\ NpmCatch
              /\ UNCHANGED nTried
    /\ UNCHANGED <<nPkg, nLock, nProc, nLs>>

\* extractDependenciesWithTimeout: the timer of Promise.race fires first
NpmTimeout ==
    /\ UNCHANGED notNpm
    /\ npc # "start"
    /\ nCall = "pending"
    /\ nCall' = "timedOut"
    /\ UNCHANGED <<nPkg, nLock, npc, nProc, nLs, nResult, nTried>>

NpmNext ==
    \/ NpmStart
    \/ NpmLsClosed
    \/ NpmPkgRead
    \/ NpmLockRead
    \/ NpmCatchRead
    \/ NpmTimeout

(***************************************************************************)
(* MavenExtractor.  The spawn revision (src/extractors/mavenExtractor.js)  *)
(* reads pom.xml, spawns mvn help:effective-pom, parses and deletes the    *)
(* generated file and falls back to pom.xml in its catch block; its        *)
(* extractDependenciesWithTimeout kills procRef.proc when the timer fires.  *)
(* The execa revision runs mvn install first, runs the command under       *)
(* execa's own timeout and then looks whether effective-pom.xml exists.    *)
(***************************************************************************)
Artifacts == {"junit", "guava"}

\* a <dependency> element: groupId:artifactId and scope
MavenEntries == [artifact : Artifacts, scope : {"compile", "test"}]

NoXml == [exists |-> FALSE, ok |-> FALSE, children |-> <<>>]

\* an XML file: absent, not parseable, or a project with the <dependency>
\* children of its <dependencies> block
PomXmls ==
    {NoXml, [NoXml EXCEPT !.exists = TRUE]}
    \cup [exists : {TRUE}, ok : {TRUE},
          children : UNION {[1..n -> MavenEntries] : n \in 0..MaxPkgs}]

\* XMLParser.parse: project.dependencies.dependency is absent without a
\* child, the element's object with one child, an array with several
XmlDependency(children) ==
    IF Len(children) = 0 THEN [present |-> FALSE, isArray |-> FALSE, items |-> <<>>]
    ELSE IF Len(children) = 1 THEN [present |-> TRUE, isArray |-> FALSE, items |-> children]
    ELSE [present |-> TRUE, isArray |-> TRUE, items |-> children]

\* Array.isArray(dependency) ? dependency : [dependency]
AsList(dependency) ==
    IF dependency.isArray THEN dependency.items ELSE <<dependency.items[1]>>

MavenDep(src, e) == [src |-> src, name |-> e.artifact, isDev |-> (e.scope = "test")]

\* the records of the <dependencies> block of a parsed XML file
XmlDeps(src, xml) ==
    LET dependency == XmlDependency(xml.children) IN
    IF dependency.present
      THEN [i \in 1..Len(AsList(dependency)) |-> MavenDep(src, AsList(dependency)[i])]
      ELSE <<>>

MavenInit ==
    /\ mVariant \in {"spawn", "execa"}
    /\ mCall \in (IF mVariant = "spawn" THEN {"none", "pending"} ELSE {"none"})
    /\ mPom \in PomXmls
    /\ mEff \in PomXmls
    /\ mpc = "start"
    /\ mProc = "none"
    /\ mProcRef = FALSE
    /\ mCmd = "none"
    /\ mOutput = FALSE
    /\ mProduced = FALSE
    /\ mResult = <<>>
    /\ mCommands = <<>>

MavenIdle ==
    /\ mVariant = "spawn"
    /\ mCall = "none"
    /\ mPom = NoXml
    /\ mEff = NoXml
    /\ mpc = "idle"
    /\ mProc = "none"
    /\ mProcRef = FALSE
    /\ mCmd = "none"
    /\ mOutput = FALSE
    /\ mProduced = FALSE
    /\ mResult = <<>>
    /\ mCommands = <<>>

\* extractDependencies returns list; the then-handler of the timeout wrapper
\* resolves unless the timer has finished the call
MavenReturn(list) ==
    /\ mResult' = list
    /\ mpc' = "done"
    /\ mCall' = IF mCall = "pending" THEN "resolved" ELSE mCall

\* catch (fileError) and the outer catch: return []
MavenCatch == MavenReturn(<<>>)

\* entry: the spawn revision goes straight to the awaited readFile of
\* pom.xml, the execa revision requires pom.xml and starts mvn install
MavenStart ==
    /\ UNCHANGED notMaven
    /\ mpc = "start"
    /\ IF mVariant = "spawn"
         THEN /\ mpc' = "readPom"
              /\ UNCHANGED <<mResult, mCall, mCommands>>
         ELSE IF ~mPom.exists
           THEN /\ MavenReturn(<<>>)
                /\ UNCHANGED mCommands
           ELSE /\ mCommands' = Append(mCommands, "install")
                /\ mpc' = "install"
                /\ UNCHANGED <<mResult, mCall>>
    /\ UNCHANGED <<mVariant, mPom, mEff, mProc, mProcRef, mCmd, mOutput, mProduced>>

\* execa revision: the awaited mvn install returns or throws (only logged)
MavenInstalled ==
    /\ UNCHANGED notMaven
    /\ mpc = "install"
    /\ mpc' = "readPom"
    /\ UNCHANGED <<mVariant, mCall, mPom, mEff, mProc, mProcRef, mCmd, mOutput,
                   mProduced, mResult, mCommands>>

\* the awaited readFile of pom.xml and its parse; the execa revision then
\* starts the command, the spawn revision awaits import('child_process')
MavenPomRead ==
    /\ UNCHANGED notMaven
    /\ mpc = "readPom"
    /\ IF ~mPom.exists \/ ~mPom.ok
         THEN /\ MavenCatch
              /\ UNCHANGED <<mProc, mCommands>>
         ELSE IF mVariant = "spawn"
           THEN /\ mpc' = "import"
                /\ UNCHANGED <<mResult, mCall, mProc, mCommands>>
           ELSE /\ mpc' = "mvn"
                /\ mProc' = "running"
                /\ mCommands' = Append(mCommands, "effective-pom")
                /\ UNCHANGED <<mResult, mCall>>
    /\ UNCHANGED <<mVariant, mPom, mEff, mProcRef, mCmd, mOutput, mProduced>>

\* spawn revision: spawn('mvn', ...) and options.procRef.proc = mvnProc
MavenSpawn ==
    /\ UNCHANGED notMaven
    /\ mpc = "import"
    /\ mpc' = "mvn"
    /\ mProc' = "running"
    /\ mProcRef' = (mCall # "none")
    /\ mCommands' = Append(mCommands, "effective-pom")
    /\ UNCHANGED <<mVariant, mCall, mPom, mEff, mCmd, mOutput, mProduced, mResult>>

\* the fallback of both revisions: the <dependencies> block of pom.xml
RawPomDeps == XmlDeps("pom", mPom)

\* the command ends: exit code 0 (it may have written effective-pom.xml), a
\* failure, execa's timeout, or the close event of a killed subprocess
MavenClosed ==
    /\ UNCHANGED notMaven
    /\ mpc = "mvn"
    /\ mProc \in {"running", "killed"}
    /\ mProc' = "closed"
    /\ \E out \in {"ok", "failed", "timedOut"}, written \in {e \in PomXmls : e.exists} \cup {mEff} :
         /\ mProc = "killed" => out = "failed"
         /\ out = "timedOut" => mVariant = "execa"
         /\ mCmd' = out
         /\ mEff' = IF out = "ok" THEN written ELSE mEff
         /\ mProduced' = (out = "ok" /\ written.exists)
         /\ mOutput' = mEff'.exists
         /\ IF mVariant = "spawn"
              THEN IF out = "ok"
                     THEN /\ mpc' = "readEff"
                          /\ UNCHANGED <<mResult, mCall>>
                     ELSE MavenReturn(RawPomDeps)
              ELSE IF mEff'.exists
                     THEN /\ mpc' = "readEff"
                          /\ UNCHANGED <<mResult, mCall>>
                     ELSE MavenReturn(RawPomDeps)
    /\ UNCHANGED <<mVariant, mPom, mProcRef, mCommands>>

\* the awaited readFile of effective-pom.xml and its parse.  The spawn
\* revision deletes the file after a successful parse and falls back to
\* pom.xml when the read or the parse throws; the execa revision has the
\* unlink commented out and returns [] from the outer catch.
MavenEffRead ==
    /\ UNCHANGED notMaven
    /\ mpc = "readEff"
    /\ IF mEff.exists /\ mEff.ok
         THEN /\ MavenReturn(XmlDeps("effective", mEff))
              /\ mEff' = IF mVariant = "spawn" THEN NoXml ELSE mEff
         ELSE /\ MavenReturn(IF mVariant = "spawn" THEN RawPomDeps ELSE <<>>)
              /\ UNCHANGED mEff
    /\ UNCHANGED <<mVariant, mPom, mProc, mProcRef, mCmd, mOutput, mProduced, mCommands>>

\* extractDependenciesWithTimeout: the timer fires; finished = true, the
\* subprocess is killed when procRef.proc is set, the promise rejects
MavenTimeout ==
    /\ UNCHANGED notMaven
    /\ mpc # "start"
    /\ mCall = "pending"
    /\ mCall' = "timedOut"
    /\ mProc' = IF mProcRef /\ mProc = "running" THEN "killed" ELSE mProc
    /\ UNCHANGED <<mVariant, mPom, mEff, mpc, mProcRef, mCmd, mOutput, mProduced,
                   mResult, mCommands>>

MavenNext ==
    \/ MavenStart
    \/ MavenInstalled
    \/ MavenPomRead
    \/ MavenSpawn
    \/ MavenClosed
    \/ MavenEffRead
    \/ MavenTimeout

(***************************************************************************)
(* GradleExtractor.  The exec revision runs gradle dependencies and, when  *)
(* the command throws, scans the build file with _parseGradleFile.  The    *)
(* execa revision runs gradle build first, runs gradle dependencies under  *)
(* execa's timeout and parses an empty output when the command throws.     *)
(***************************************************************************)
\* the configurations _parseGradleFile's regular expression names
ScannedConfigurations ==
    {"implementation", "api", "compile", "testImplementation", "testCompile"}

Configurations == {"implementation", "testImplementation", "runtimeOnly"}

GradleNames == {"guava"}

\* a declaration of the dependencies block: configuration 'group:name:version'
Declarations == [conf : Configurations, name : GradleNames]

NoGradleFile == [exists |-> FALSE, readable |-> FALSE, decls |-> <<>>]

GradleFiles ==
    {NoGradleFile}
    \cup [exists : {TRUE}, readable : BOOLEAN,
          decls : UNION {[1..n -> Declarations] : n \in 0..MaxPkgs}]

\* the dependency lines gradle dependencies prints
GradleOutputs == UNION {[1..n -> {"guava", "junit"}] : n \in 0..MaxPkgs}

GradleDep(src, name, isDev) == [src |-> src, name |-> name, isDev |-> isDev]

RECURSIVE _parseGradleFile(_)
\* the matches of the regular expression in the build file, in order
_parseGradleFile(decls) ==
    IF decls = <<>> THEN <<>>
    ELSE IF Head(decls).conf \in ScannedConfigurations
      THEN <<[name |-> Head(decls).name, type |-> Head(decls).conf]>>
           \o _parseGradleFile(Tail(decls))
      ELSE _parseGradleFile(Tail(decls))

\* the records pushed for the matches of the build file
FileScanDeps(decls) ==
    LET depList == _parseGradleFile(decls) IN
    [i \in 1..Len(depList) |->
        GradleDep("file", depList[i].name,
                  depList[i].type \in {"testImplementation", "testCompile"})]

\* the records pushed for the lines of the command's output; the parsed
\* lines carry no configuration, so isDev is false
OutputDeps(lines) == [i \in 1..Len(lines) |-> GradleDep("output", lines[i], FALSE)]

GradleInit ==
    /\ gVariant \in {"execa", "exec"}
    /\ gFile \in GradleFiles
    /\ gpc = "start"
    /\ gCmd = "none"
    /\ gStdout = <<>>
    /\ gResult = <<>>
    /\ gCommands = <<>>

GradleIdle ==
    /\ gVariant = "exec"
    /\ gFile = NoGradleFile
    /\ gpc = "idle"
    /\ gCmd = "none"
    /\ gStdout = <<>>
    /\ gResult = <<>>
    /\ gCommands = <<>>

\* entry: without build.gradle and build.gradle.kts return []; the execa
\* revision starts gradle build, the exec revision gradle dependencies
GradleStart ==
    /\ UNCHANGED notGradle
    /\ gpc = "start"
    /\ IF ~gFile.exists
         THEN /\ gpc' = "done"
              /\ UNCHANGED gCommands
         ELSE IF gVariant = "execa"
           THEN /\ gpc' = "build"
                /\ gCommands' = Append(gCommands, "build")
           ELSE /\ gpc' = "deps"
                /\ gCommands' = Append(gCommands, "dependencies")
    /\ UNCHANGED <<gVariant, gFile, gCmd, gStdout, gResult>>

\* execa revision: the awaited gradle build returns or throws (only logged)
GradleBuilt ==
    /\ UNCHANGED notGradle
    /\ gpc = "build"
    /\ gpc' = "deps"
    /\ gCommands' = Append(gCommands, "dependencies")
    /\ UNCHANGED <<gVariant, gFile, gCmd, gStdout, gResult>>

\* gradle dependencies ends: its output is parsed, or it throws (execa also
\* on its timeout); the exec revision then reads the build file
GradleListed ==
    /\ UNCHANGED notGradle
    /\ gpc = "deps"
    /\ \E out \in {"ok", "failed", "timedOut"}, lines \in GradleOutputs :
         /\ out = "timedOut" => gVariant = "execa"
         /\ out # "ok" => lines = <<>>
         /\ gCmd' = out
         /\ gStdout' = lines
         /\ IF out = "ok"
              THEN /\ gResult' = OutputDeps(lines)
                   /\ gpc' = "done"
              ELSE IF gVariant = "execa"
                THEN /\ gResult' = OutputDeps(<<>>)
                     /\ gpc' = "done"
                ELSE /\ gpc' = "readFile"
                     /\ UNCHANGED gResult
    /\ UNCHANGED <<gVariant, gFile, gCommands>>

\* exec revision: the awaited readFile of the build file; a read error is
\* logged and the list stays empty
GradleFileRead ==
    /\ UNCHANGED notGradle
    /\ gpc = "readFile"
    /\ gResult' = IF gFile.readable THEN FileScanDeps(gFile.decls) ELSE <<>>
    /\ gpc' = "done"
    /\ UNCHANGED <<gVariant, gFile, gCmd, gStdout, gCommands>>

GradleNext ==
    \/ GradleStart
    \/ GradleBuilt
    \/ GradleListed
    \/ GradleFileRead

(***************************************************************************)
(* projectPath of the records.  Every strategy computes                    *)
(* path.join(path.dirname(projectRelativePath), <file name>) with a file   *)
(* name of its own.                                                        *)
(***************************************************************************)
DirNames == {"a", "b"}

\* the strategies of each extractor that push records
Sources(type) ==
    CASE type = "NPM"      -> {"lockV2", "lockV3", "manifest"}
      [] type = "Maven"    -> {"effective", "pom"}
      [] type = "Gradle"   -> {"output", "file"}
      [] type = "Composer" -> {"show", "lock", "manifest"}

\* path.relative(basePath, filePath) of a walked file: directory segments
\* and the basename
RelativePaths(fileName) ==
    {dir \o <<fileName>> : dir \in UNION {[1..n -> DirNames] : n \in 0..MaxSegs}}

\* path.dirname
Dirname(p) == IF Len(p) <= 1 THEN <<".">> ELSE SubSeq(p, 1, Len(p) - 1)

RECURSIVE DropDots(_)
DropDots(p) ==
    IF p = <<>> THEN <<>>
    ELSE IF Head(p) = "." THEN DropDots(Tail(p))
    ELSE <<Head(p)>> \o DropDots(Tail(p))

\* path.join: concatenates and normalizes
PathJoin(dir, name) ==
    IF DropDots(dir \o <<name>>) = <<>> THEN <<".">> ELSE DropDots(dir \o <<name>>)

\* let gradleFile = 'build.gradle'; if (!existsSync(...)) gradleFile = 'build.gradle.kts'
GradleFile(groovy) == IF groovy THEN "build.gradle" ELSE "build.gradle.kts"

\* the file name each strategy joins to the directory
CsvFileName(type, source, groovy) ==
    CASE type = "NPM" /\ source \in {"lockV2", "lockV3"} -> "package-lock.json"
      [] type = "NPM" /\ source = "manifest"             -> "package.json"
      [] type = "Maven"                                   -> "pom.xml"
      [] type = "Gradle"                                  -> GradleFile(groovy)
      [] type = "Composer"                                -> "composer.json"

ProjectPathForCsv(type, source, rel, groovy) ==
    PathJoin(Dirname(rel), CsvFileName(type, source, groovy))

TagInit ==
    /\ tType \in ProjectType
    /\ \E f \in ProjectFiles(tType) : tRel \in RelativePaths(f)
    /\ tGroovy \in BOOLEAN
    /\ tType = "Gradle" => (tRel[Len(tRel)] = "build.gradle" => tGroovy)
    /\ tType # "Gradle" => ~tGroovy
    /\ tSource \in Sources(tType)
    /\ tpc = "start"
    /\ tProjectPath = <<>>

TagIdle ==
    /\ tType = "NPM"
    /\ tRel = <<"package.json">>
    /\ tGroovy = FALSE
    /\ tSource = "manifest"
    /\ tpc = "idle"
    /\ tProjectPath = <<>>

\* a strategy of the project's extractor pushes a record
PushRecord ==
    /\ UNCHANGED notTag
    /\ tpc = "start"
    /\ tProjectPath' = ProjectPathForCsv(tType, tSource, tRel, tGroovy)
    /\ tpc' = "done"
    /\ UNCHANGED <<tType, tRel, tGroovy, tSource>>

TagNext ==
    \/ PushRecord

(***************************************************************************)
(* CsvHelper: constructor, initializeCsv, appendDependenciesToCsv and      *)
(* finalizeCsv.                                                            *)
(***************************************************************************)
MaxAppends == 3

\* values of the option -o/--output (default dependencies.csv)
OutputOptions ==
    {dir \o <<name>> : dir \in {<<>>, <<"out">>}, name \in {"dependencies.csv", "report.csv"}}

\* constructor: path.join(path.dirname(outputPath), 'dependencies.csv')
ConstructorOutputPath(outputPath) == PathJoin(Dirname(outputPath), "dependencies.csv")

headers == <<"ProjectType", "ProjectPath", "DependencyName", "DependencyVersion">>

\* dependency records; a version of "" stands for an absent dependencyVersion
CsvRecords ==
    {[projectType |-> "NPM", projectPath |-> "package.json",
      dependencyName |-> "lodash", dependencyVersion |-> "4.17.21"],
     [projectType |-> "NPM", projectPath |-> "package.json",
      dependencyName |-> "jest", dependencyVersion |-> ""]}

\* arguments of appendDependenciesToCsv: not an array, or an array
Batches ==
    {[isArray |-> FALSE, deps |-> <<>>]}
    \cup [isArray : {TRUE}, deps : UNION {[1..n -> CsvRecords] : n \in 0..MaxDeps}]

\* the row of a record: dep.x || ''
CsvRow(dep) ==
    <<dep.projectType, dep.projectPath, dep.dependencyName, dep.dependencyVersion>>

\* stringify(csvRows): one line per row
CsvRowsOf(deps) == [i \in 1..Len(deps) |-> CsvRow(deps[i])]

\* fs.writeFile / fs.appendFile on the files written so far
WriteFile(fs, p, lines) == [q \in (DOMAIN fs) \cup {p} |-> IF q = p THEN lines ELSE fs[q]]

AppendFile_overwrite(fs, p, lines) == WriteFile(fs, p, lines)

AppendFile(fs, p, lines) ==
    WriteFile(fs, p, (IF p \in DOMAIN fs THEN fs[p] ELSE <<>>) \o lines)

CsvInit ==
    /\ kOption \in OutputOptions
    /\ kOutputPath = ConstructorOutputPath(kOption)
    /\ kInitialized = FALSE
    /\ kFiles = <<>>
    /\ kpc = "constructed"
    /\ kCalls = <<>>
    /\ kReturned = <<>>
    /\ kRejected = <<>>

CsvIdle ==
    /\ kOption = <<"dependencies.csv">>
    /\ kOutputPath = <<"dependencies.csv">>
    /\ kInitialized = FALSE
    /\ kFiles = <<>>
    /\ kpc = "idle"
    /\ kCalls = <<>>
    /\ kReturned = <<>>
    /\ kRejected = <<>>

\* a sink that skips the check of this.initialized
RequiresInitialized_unchecked(flag) == TRUE

\* if (!this.initialized) throw new Error(...), the first statement of
\* appendDependenciesToCsv and of finalizeCsv
RequiresInitialized(flag) == flag

\* initializeCsv: mkdir, writeFile of the header line, initialized = true;
\* an error of either is rethrown and leaves the flag as it was
CsvInitialize ==
    /\ UNCHANGED notCsv
    /\ kpc \in {"constructed", "failed"}
    /\ \E ok \in BOOLEAN :
         IF ok
           THEN /\ kFiles' = WriteFile(kFiles, kOutputPath, <<headers>>)
                /\ kInitialized' = TRUE
                /\ kpc' = "open"
           ELSE /\ kpc' = "failed"
                /\ UNCHANGED <<kFiles, kInitialized>>
    /\ UNCHANGED <<kOption, kOutputPath, kCalls, kReturned, kRejected>>

\* appendDependenciesToCsv, awaited: it throws when the sink is not
\* initialized; an empty or non-array argument returns at once; otherwise
\* the rows are appended, or appendFile throws
CsvAppend ==
    /\ UNCHANGED notCsv
    /\ kpc \in {"constructed", "failed", "open"}
    /\ Len(kCalls) < MaxAppends
    /\ \E batch \in Batches, ok \in BOOLEAN :
         IF ~RequiresInitialized(kInitialized)
           THEN /\ ~ok
                /\ kCalls' = Append(kCalls, [batch |-> batch, ok |-> FALSE])
                /\ kRejected' = Append(kRejected, "append")
                /\ UNCHANGED kFiles
           ELSE /\ kCalls' = Append(kCalls, [batch |-> batch, ok |-> ok])
                /\ UNCHANGED kRejected
                /\ IF ~batch.isArray \/ Len(batch.deps) = 0
                     THEN UNCHANGED kFiles
                     ELSE IF ok
                       THEN kFiles' = AppendFile(kFiles, kOutputPath, CsvRowsOf(batch.deps))
                       ELSE UNCHANGED kFiles
    /\ UNCHANGED <<kOption, kOutputPath, kInitialized, kpc, kReturned>>

\* finalizeCsv throws when the sink is not initialized, else returns
\* this.outputPath
CsvFinalize ==
    /\ UNCHANGED notCsv
    /\ kpc \in {"constructed", "failed", "open"}
    /\ IF ~RequiresInitialized(kInitialized)
         THEN /\ Len(kRejected) < MaxAppends
              /\ kRejected' = Append(kRejected, "finalize")
              /\ UNCHANGED <<kReturned, kpc>>
         ELSE /\ kReturned' = kOutputPath
              /\ kpc' = "finalized"
              /\ UNCHANGED kRejected
    /\ UNCHANGED <<kOption, kOutputPath, kInitialized, kFiles, kCalls>>

CsvNext ==
    \/ CsvInitialize
    \/ CsvAppend
    \/ CsvFinalize

(***************************************************************************)
(* DirWalker.walk / _walk / _handleError.  A tree is the root directory    *)
(* with its entries; a directory entry (or the target of a link to a       *)
(* directory) has leaf entries of its own.  Paths are index sequences.     *)
(***************************************************************************)
MaxWidth == 2
MaxChildren == 1

Leaf(kind, statFails) ==
    [kind |-> kind, statFails |-> statFails, readFails |-> FALSE, children |-> <<>>]

\* a regular file, a link to a file, a link whose target is missing
Leaves ==
    {Leaf("file", FALSE), Leaf("file", TRUE), Leaf("linkFile", FALSE), Leaf("linkBroken", FALSE)}

\* a directory or a link to a directory: its stat fails, its readdir fails,
\* or it lists its entries
Dirs ==
    {[kind |-> k, statFails |-> sf, readFails |-> rf, children |-> ch] :
        k \in {"dir", "linkDir"}, sf \in BOOLEAN, rf \in BOOLEAN,
        ch \in UNION {[1..n -> Leaves] : n \in 0..MaxChildren}}

Entries == Leaves \cup {d \in Dirs : ~(d.statFails /\ d.readFails)
                                     /\ ((d.statFails \/ d.readFails) => d.children = <<>>)}

Trees == [readFails : BOOLEAN, entries : UNION {[1..n -> Entries] : n \in 0..MaxWidth}]

\* await fs.stat(filePath): stat follows links, so it answers for the target
StatOf(e) ==
    IF e.statFails \/ e.kind = "linkBroken" THEN "throws"
    ELSE IF e.kind \in {"file", "linkFile"} THEN "file"
    ELSE "directory"

\* stat.isSymbolicLink() of a Stats object obtained from fs.stat
IsSymbolicLink(e) == FALSE

\* the catch blocks sit around the whole loop instead of inside its body
AfterEntry_abort(i, n, failed) == IF failed THEN n + 1 ELSE i + 1

\* for (const file of files): the try/catch blocks are inside the loop body,
\* the loop goes on with the next entry
AfterEntry(i, n, failed) == i + 1

WalkInit ==
    /\ wTree \in {t \in Trees : t.readFails => t.entries = <<>>}
    /\ wpc = "start"
    /\ wPos = <<1, 1>>
    /\ wCounter = 0
    /\ wCalled = <<>>
    /\ wErrored = <<>>
    /\ wReturned = 0

WalkIdle ==
    /\ wTree = [readFails |-> FALSE, entries |-> <<>>]
    /\ wpc = "idle"
    /\ wPos = <<1, 1>>
    /\ wCounter = 0
    /\ wCalled = <<>>
    /\ wErrored = <<>>
    /\ wReturned = 0

\* walk: counter = 0; _walk: readdir of targetPath
WalkStart ==
    /\ UNCHANGED notWalk
    /\ wpc = "start"
    /\ wCounter' = 0
    /\ IF wTree.readFails
         THEN /\ wErrored' = Append(wErrored, <<>>)
              /\ wpc' = "done"
              /\ wReturned' = 0
         ELSE /\ wpc' = "root"
              /\ UNCHANGED <<wErrored, wReturned>>
    /\ UNCHANGED <<wTree, wPos, wCalled>>

\* one iteration of the loop at path p over entry e of a directory of n
\* entries, index i: stat, skip, recurse or report
WalkEntry(e, p, i, n, enter, stay) ==
    IF StatOf(e) = "throws"
      THEN /\ wErrored' = Append(wErrored, p)
           /\ wPos' = stay[AfterEntry(i, n, TRUE)]
           /\ UNCHANGED <<wpc, wCounter, wCalled>>
    ELSE IF IsSymbolicLink(e)
      THEN /\ wPos' = stay[AfterEntry(i, n, FALSE)]
           /\ UNCHANGED <<wpc, wCounter, wCalled, wErrored>>
    ELSE IF StatOf(e) = "directory"
      THEN IF e.readFails
             THEN /\ wErrored' = Append(wErrored, p)
                  /\ wPos' = stay[AfterEntry(i, n, FALSE)]
                  /\ UNCHANGED <<wpc, wCounter, wCalled>>
             ELSE /\ wpc' = "sub"
                  /\ wPos' = enter
                  /\ UNCHANGED <<wCounter, wCalled, wErrored>>
    ELSE /\ wCounter' = wCounter + 1
         /\ wCalled' = Append(wCalled, p)
         /\ \E throws \in BOOLEAN :
              /\ wErrored' = IF throws THEN Append(wErrored, p) ELSE wErrored
              /\ wPos' = stay[AfterEntry(i, n, FALSE)]
         /\ UNCHANGED wpc

\* _walk(targetPath): the next entry of the root directory
WalkRootEntry ==
    /\ UNCHANGED notWalk
    /\ wpc = "root"
    /\ wPos[1] <= Len(wTree.entries)
    /\ WalkEntry(wTree.entries[wPos[1]], <<wPos[1]>>, wPos[1], Len(wTree.entries),
                 <<wPos[1], 1>>, [k \in 1..(Len(wTree.entries) + 1) |-> <<k, 1>>])
    /\ UNCHANGED <<wTree, wReturned>>

\* the recursive _walk(filePath): the next entry of the subdirectory
WalkSubEntry ==
    /\ UNCHANGED notWalk
    /\ wpc = "sub"
    /\ LET dir == wTree.entries[wPos[1]] IN
         /\ wPos[2] <= Len(dir.children)
         /\ WalkEntry(dir.children[wPos[2]], wPos, wPos[2], Len(dir.children),
                      wPos, [k \in 1..(Len(dir.children) + 1) |-> <<wPos[1], k>>])
    /\ UNCHANGED <<wTree, wReturned>>

\* the recursive _walk returns to the loop of the root directory
WalkSubDone ==
    /\ UNCHANGED notWalk
    /\ wpc = "sub"
    /\ wPos[2] > Len(wTree.entries[wPos[1]].children)
    /\ wpc' = "root"
    /\ wPos' = <<AfterEntry(wPos[1], Len(wTree.entries), FALSE), 1>>
    /\ UNCHANGED <<wTree, wCounter, wCalled, wErrored, wReturned>>

\* walk: return this.counter
WalkReturn ==
    /\ UNCHANGED notWalk
    /\ wpc = "root"
    /\ wPos[1] > Len(wTree.entries)
    /\ wReturned' = wCounter
    /\ wpc' = "done"
    /\ UNCHANGED <<wTree, wPos, wCounter, wCalled, wErrored>>

WalkNext ==
    \/ WalkStart
    \/ WalkRootEntry
    \/ WalkSubEntry
    \/ WalkSubDone
    \/ WalkReturn

(***************************************************************************)
(* ProjectDetector.detectProjects and detectProjectsStreaming: the file    *)
(* callback both hand to the walker, and what they return.                 *)
(***************************************************************************)
repoPath == <<"repo">>

\* basenames the walker may report: the manifests and near misses
WalkedNames == FileNames \cup {"package-lock.json"}

\* relative paths of the walked files, each path once
WalkedPaths == {dir \o <<name>> : dir \in {<<>>, <<"a">>}, name \in WalkedNames}

WalkedFiles ==
    {fs \in UNION {[1..n -> WalkedPaths] : n \in 0..MaxFiles} :
        \A i, j \in 1..Len(fs) : i # j => fs[i] # fs[j]}

\* Object.entries(ProjectFiles), in insertion order
TypeOrder == <<"Maven", "Gradle", "Composer", "NPM">>

\* path.basename
Basename(p) == p[Len(p)]

\* { type, path: dirPath, file: fileName, relativePath }
Project(type, relativePath) ==
    [type |-> type,
     path |-> Dirname(DropDots(repoPath \o relativePath)),
     file |-> Basename(relativePath),
     relativePath |-> relativePath]

RECURSIVE ProjectsFrom(_, _)
\* the loop over Object.entries(ProjectFiles) from position k on
ProjectsFrom(relativePath, k) ==
    IF k > Len(TypeOrder) THEN <<>>
    ELSE (IF Basename(relativePath) \in ProjectFiles(TypeOrder[k])
            THEN <<Project(TypeOrder[k], relativePath)>> ELSE <<>>)
         \o ProjectsFrom(relativePath, k + 1)

\* projectCount++ placed after the awaited callback, inside the try
Counted_afterCallback(ps, threw) == IF threw THEN 0 ELSE Len(ps)

\* projectCount++ precedes the try around the awaited callback
Counted(ps, threw) == Len(ps)

DetectInit ==
    /\ dMode \in {"list", "streaming"}
    /\ dFiles \in WalkedFiles
    /\ dIdx = 1
    /\ dpc = "walk"
    /\ dProjects = <<>>
    /\ dThrown = {}
    /\ dProjectCount = 0
    /\ dResult = 0

DetectIdle ==
    /\ dMode = "list"
    /\ dFiles = <<>>
    /\ dIdx = 1
    /\ dpc = "idle"
    /\ dProjects = <<>>
    /\ dThrown = {}
    /\ dProjectCount = 0
    /\ dResult = 0

\* fileCallback(relativePath): detectProjects pushes the projects of the
\* file; detectProjectsStreaming counts each and awaits projectCallback,
\* whose error it catches
DetectFile ==
    /\ UNCHANGED notDetect
    /\ dpc = "walk"
    /\ dIdx <= Len(dFiles)
    /\ LET ps == ProjectsFrom(dFiles[dIdx], 1) IN
       \E threw \in BOOLEAN :
         /\ threw => (dMode = "streaming" /\ ps # <<>>)
         /\ dProjects' = dProjects \o ps
         /\ dThrown' = IF threw THEN dThrown \cup {dIdx} ELSE dThrown
         /\ dProjectCount' = IF dMode = "streaming"
                               THEN dProjectCount + Counted(ps, threw)
                               ELSE dProjectCount
    /\ dIdx' = dIdx + 1
    /\ UNCHANGED <<dMode, dFiles, dpc, dResult>>

\* the walk is over: return projects / return projectCount
DetectReturn ==
    /\ UNCHANGED notDetect
    /\ dpc = "walk"
    /\ dIdx > Len(dFiles)
    /\ dResult' = IF dMode = "list" THEN Len(dProjects) ELSE dProjectCount
    /\ dpc' = "done"
    /\ UNCHANGED <<dMode, dFiles, dIdx, dProjects, dThrown, dProjectCount>>

DetectNext ==
    \/ DetectFile
    \/ DetectReturn

(***************************************************************************)
(* NpmExtractor, npm install revision: without package-lock.json it        *)
(* validates package.json and runs npm install, then reads the lockfile    *)
(* if one exists, else the maps of package.json.                           *)
(***************************************************************************)
\* the lockfiles a successful npm install writes (lockfileVersion 3)
InstalledLocks == {l \in PackageLocks : l.ok /\ l.shape = "v3" /\ l.v3 # <<>>}

\* for (const [name, version] of Object.entries(map)): every entry, version
\* pushed as it stands
VerbatimEntries(map, isDev) ==
    [i \in 1..Len(map) |-> NpmDep("manifest", <<map[i].name>>, map[i].value, isDev)]

VerbatimDeps(pkg) ==
    VerbatimEntries(pkg.dependencies, FALSE) \o VerbatimEntries(pkg.devDependencies, TRUE)

NpmInstallInit ==
    /\ xPath \in ProjectPaths({"app", "node_modules"})
    /\ xSkipped = FALSE
    /\ xPkg \in PackageJsons
    /\ xLock \in PackageLocks
    /\ xLockAtStart = xLock.exists
    /\ xpc = "start"
    /\ xInstall = "none"
    /\ xResult = <<>>
    /\ xCommands = <<>>

NpmInstallIdle ==
    /\ xPath = <<>>
    /\ xSkipped = FALSE
    /\ xPkg = NoPkg
    /\ xLock = NoLock
    /\ xLockAtStart = FALSE
    /\ xpc = "idle"
    /\ xInstall = "none"
    /\ xResult = <<>>
    /\ xCommands = <<>>

NpmInstallReturn(list) ==
    /\ xResult' = list
    /\ xpc' = "done"

\* entry: a project path under node_modules returns the empty skipResult;
\* package.json is required; without a lockfile package.json is validated
\* first, with one the lockfile is read
NpmInstallStart ==
    /\ UNCHANGED notNpmInstall
    /\ xpc = "start"
    /\ IF UnderVendored(xPath, "node_modules")
         THEN /\ NpmInstallReturn(<<>>)
              /\ xSkipped' = TRUE
         ELSE /\ UNCHANGED xSkipped
              /\ IF ~xPkg.exists
                   THEN NpmInstallReturn(<<>>)
                   ELSE /\ xpc' = IF xLock.exists THEN "readLock" ELSE "validate"
                        /\ UNCHANGED xResult
    /\ UNCHANGED <<xPath, xPkg, xLock, xLockAtStart, xInstall, xCommands>>

\* the awaited readFile of package.json and JSON.parse: an invalid manifest
\* ends the extraction, a valid one starts npm install
NpmInstallValidate ==
    /\ UNCHANGED notNpmInstall
    /\ xpc = "validate"
    /\ IF ~xPkg.ok
         THEN /\ NpmInstallReturn(<<>>)
              /\ UNCHANGED xCommands
         ELSE /\ xpc' = "install"
              /\ xCommands' = Append(xCommands, "install")
              /\ UNCHANGED xResult
    /\ UNCHANGED <<xPath, xSkipped, xPkg, xLock, xLockAtStart, xInstall>>

\* npm install ends and package.json is read whatever the install wrote
NpmInstallEnded_manifest ==
    /\ UNCHANGED notNpmInstall
    /\ xpc = "install"
    /\ \E out \in {"ok", "failed", "timedOut"}, written \in InstalledLocks \cup {xLock} :
         /\ out # "ok" => written = xLock
         /\ xInstall' = out
         /\ xLock' = written
         /\ xpc' = "readPkg"
    /\ UNCHANGED <<xPath, xSkipped, xPkg, xLockAtStart, xResult, xCommands>>

\* the awaited npm install ends (its error is only logged); a successful
\* install may have written package-lock.json; then existsSync(lockFilePath)
NpmInstallEnded ==
    /\ UNCHANGED notNpmInstall
    /\ xpc = "install"
    /\ \E out \in {"ok", "failed", "timedOut"}, written \in InstalledLocks \cup {xLock} :
         /\ out # "ok" => written = xLock
         /\ xInstall' = out
         /\ xLock' = written
         /\ xpc' = IF written.exists THEN "readLock" ELSE "readPkg"
    /\ UNCHANGED <<xPath, xSkipped, xPkg, xLockAtStart, xResult, xCommands>>

\* the awaited readFile of package-lock.json and its processing; a read or
\* parse error is logged and control reaches the final return with the
\* list still empty (the manifest branch is the else of existsSync)
NpmInstallLockRead ==
    /\ UNCHANGED notNpmInstall
    /\ xpc = "readLock"
    /\ NpmInstallReturn(IF xLock.ok THEN LockDeps(xLock) ELSE <<>>)
    /\ UNCHANGED <<xPath, xSkipped, xPkg, xLock, xLockAtStart, xInstall, xCommands>>

\* the else branch: package.json is read and its maps pushed; an error goes
\* to the outer catch
NpmInstallPkgRead ==
    /\ UNCHANGED notNpmInstall
    /\ xpc = "readPkg"
    /\ NpmInstallReturn(IF xPkg.ok THEN VerbatimDeps(xPkg) ELSE <<>>)
    /\ UNCHANGED <<xPath, xSkipped, xPkg, xLock, xLockAtStart, xInstall, xCommands>>

NpmInstallNext ==
    \/ NpmInstallStart
    \/ NpmInstallValidate
    \/ NpmInstallEnded
    \/ NpmInstallLockRead
    \/ NpmInstallPkgRead

(***************************************************************************)
(* extractDependencies called a second time on the directory the first     *)
(* call left behind (npm install revision and Maven execa revision), the   *)
(* external command ending the second time as it did the first time.       *)
(***************************************************************************)
AgainInit ==
    /\ aRun = 1
    /\ aFirst = <<>>
    /\ aOut = "none"
    /\ aFile = NoLock

AgainIdle == AgainInit

\* the second call of NpmExtractor.extractDependencies: the directory keeps
\* package.json and whatever package-lock.json the first call left
NpmInstallAgain ==
    /\ UNCHANGED <<runVars, composerVars, npmVars, mavenVars, gradleVars, tagVars,
                   csvVars, walkVars, detectVars, overlapVars, sharedVars, loopVars>>
    /\ aRun = 1
    /\ xpc = "done"
    /\ aRun' = 2
    /\ aFirst' = xResult
    /\ aOut' = xInstall
    /\ aFile' = xLock
    /\ xpc' = "start"
    /\ xLockAtStart' = xLock.exists
    /\ xSkipped' = FALSE
    /\ xInstall' = "none"
    /\ xResult' = <<>>
    /\ xCommands' = <<>>
    /\ UNCHANGED <<xPath, xPkg, xLock>>

\* npm install of the second call ends as it ended in the first call
NpmInstallEndedAgain ==
    /\ NpmInstallEnded
    /\ aRun = 2 => (xInstall' = aOut /\ xLock' = aFile)

\* the second call of MavenExtractor.extractDependencies (execa revision):
\* the directory keeps pom.xml and whatever effective-pom.xml was left
MavenAgain ==
    /\ UNCHANGED <<runVars, composerVars, npmVars, gradleVars, tagVars, csvVars,
                   walkVars, detectVars, npmInstallVars, overlapVars, sharedVars,
                   loopVars>>
    /\ aRun = 1
    /\ mVariant = "execa"
    /\ mpc = "done"
    /\ aRun' = 2
    /\ aFirst' = mResult
    /\ aOut' = mCmd
    /\ aFile' = mEff
    /\ mpc' = "start"
    /\ mProc' = "none"
    /\ mCmd' = "none"
    /\ mOutput' = FALSE
    /\ mProduced' = FALSE
    /\ mResult' = <<>>
    /\ mCommands' = <<>>
    /\ UNCHANGED <<mVariant, mCall, mPom, mEff, mProcRef>>

\* mvn help:effective-pom of the second call ends as it ended in the first
MavenClosedAgain ==
    /\ MavenClosed
    /\ aRun = 2 => (mCmd' = aOut /\ mEff' = aFile)

AgainNext ==
    \/ NpmInstallStart
    \/ NpmInstallValidate
    \/ NpmInstallEndedAgain
    \/ NpmInstallLockRead
    \/ NpmInstallPkgRead
    \/ NpmInstallAgain
    \/ MavenStart
    \/ MavenInstalled
    \/ MavenPomRead
    \/ MavenClosedAgain
    \/ MavenEffRead
    \/ MavenAgain

(***************************************************************************)
(* Two overlapping extractDependenciesWithTimeout calls (spawn revisions   *)
(* of MavenExtractor and GradleExtractor).  Every call creates its own     *)
(* procRef object and its own timer; extractDependencies stores the        *)
(* subprocess it spawns in the procRef it was handed.                      *)
(***************************************************************************)
Calls == {1, 2}

\* one procRef for the extractor instance, shared by its calls
ProcRefOf_shared(c) == 1

\* const procRef = { proc: null } inside extractDependenciesWithTimeout: the
\* object of call c belongs to that call alone
ProcRefOf(c) == c

OverlapInit ==
    /\ oKind \in [Calls -> {"maven", "gradle"}]
    /\ oCall = [c \in Calls |-> "none"]
    /\ opc = [c \in Calls |-> "start"]
    /\ oRef = [r \in Calls |-> 0]
    /\ oProc = [c \in Calls |-> "none"]
    /\ oKilledBy = [c \in Calls |-> 0]
    /\ oResult = [c \in Calls |-> "none"]

OverlapIdle ==
    /\ oKind = [c \in Calls |-> "maven"]
    /\ oCall = [c \in Calls |-> "none"]
    /\ opc = [c \in Calls |-> "idle"]
    /\ oRef = [r \in Calls |-> 0]
    /\ oProc = [c \in Calls |-> "none"]
    /\ oKilledBy = [c \in Calls |-> 0]
    /\ oResult = [c \in Calls |-> "none"]

\* extractDependencies of call c returns; the then-handler resolves the
\* call unless its timer has finished it
OverlapReturn(c, list) ==
    /\ oResult' = [oResult EXCEPT ![c] = list]
    /\ opc' = [opc EXCEPT ![c] = "done"]
    /\ oCall' = [oCall EXCEPT ![c] = IF oCall[c] = "pending" THEN "resolved" ELSE oCall[c]]

\* spawn(...) and options.procRef.proc = proc
OverlapSpawned(c) ==
    /\ oProc' = [oProc EXCEPT ![c] = "running"]
    /\ oRef' = [oRef EXCEPT ![ProcRefOf(c)] = c]

\* extractDependenciesWithTimeout is called: the timer is set and
\* extractDependencies runs to its first await, which in the Gradle
\* extractor is the promise around the spawned gradle dependencies and in
\* the Maven extractor the readFile of pom.xml
OverlapBegin ==
    /\ UNCHANGED notOverlap
    /\ \E c \in Calls :
         /\ oCall[c] = "none"
         /\ opc[c] = "start"
         /\ oCall' = [oCall EXCEPT ![c] = "pending"]
         /\ IF oKind[c] = "gradle"
              THEN /\ OverlapSpawned(c)
                   /\ opc' = [opc EXCEPT ![c] = "command"]
              ELSE /\ opc' = [opc EXCEPT ![c] = "readPom"]
                   /\ UNCHANGED <<oProc, oRef>>
    /\ UNCHANGED <<oKind, oKilledBy, oResult>>

\* Maven: pom.xml has been read (an unreadable one returns []), the awaited
\* import('child_process') has resolved and mvn help:effective-pom is spawned
OverlapMavenSpawn ==
    /\ UNCHANGED notOverlap
    /\ \E c \in Calls, readable \in BOOLEAN :
         /\ opc[c] = "readPom"
         /\ IF readable
              THEN /\ OverlapSpawned(c)
                   /\ opc' = [opc EXCEPT ![c] = "command"]
                   /\ UNCHANGED <<oResult, oCall>>
              ELSE /\ OverlapReturn(c, "empty")
                   /\ UNCHANGED <<oProc, oRef>>
    /\ UNCHANGED <<oKind, oKilledBy>>

\* the close event of the subprocess of call c: exit code 0 yields the
\* records of the command, any other end (a kill included) the catch block,
\* which is the pom.xml fallback for Maven and [] for Gradle
OverlapClosed ==
    /\ UNCHANGED notOverlap
    /\ \E c \in Calls, code \in {"zero", "nonzero"} :
         /\ opc[c] = "command"
         /\ oProc[c] \in {"running", "killed"}
         /\ oProc[c] = "killed" => code = "nonzero"
         /\ oProc' = [oProc EXCEPT ![c] = "closed"]
         /\ OverlapReturn(c, IF code = "zero" THEN "command"
                             ELSE IF oKind[c] = "maven" THEN "pom" ELSE "empty")
    /\ UNCHANGED <<oKind, oRef, oKilledBy>>

\* the timer of call c fires: finished = true, procRef.proc is killed when
\* it is set, the call rejects
OverlapTimeout ==
    /\ UNCHANGED notOverlap
    /\ \E c \in Calls :
         /\ oCall[c] = "pending"
         /\ oCall' = [oCall EXCEPT ![c] = "timedOut"]
         /\ LET p == oRef[ProcRefOf(c)] IN
              IF p # 0 /\ oProc[p] = "running"
                THEN /\ oProc' = [oProc EXCEPT ![p] = "killed"]
                     /\ oKilledBy' = [oKilledBy EXCEPT ![p] = c]
                ELSE UNCHANGED <<oProc, oKilledBy>>
    /\ UNCHANGED <<oKind, opc, oRef, oResult>>

OverlapNext ==
    \/ OverlapBegin
    \/ OverlapMavenSpawn
    \/ OverlapClosed
    \/ OverlapTimeout

(***************************************************************************)
(* Two walk calls on one DirWalker instance (ProjectDetector holds a       *)
(* single DirWalker).  walk sets this.counter = 0, _walk increments        *)
(* this.counter before each awaited file callback, walk returns            *)
(* this.counter; the awaits of one call let the other call run.            *)
(***************************************************************************)
Walkers == {1, 2}

SharedInit ==
    /\ sCounter = 0
    /\ spc = [c \in Walkers |-> "start"]
    /\ sLeft \in [Walkers -> 0..MaxFiles]
    /\ sOwn = [c \in Walkers |-> 0]
    /\ sReturned = [c \in Walkers |-> 0]

SharedIdle ==
    /\ sCounter = 0
    /\ spc = [c \in Walkers |-> "idle"]
    /\ sLeft = [c \in Walkers |-> 0]
    /\ sOwn = [c \in Walkers |-> 0]
    /\ sReturned = [c \in Walkers |-> 0]

\* walk: this.counter = 0, then the awaited _walk starts with readdir
SharedWalkStart ==
    /\ UNCHANGED notShared
    /\ \E c \in Walkers :
         /\ spc[c] = "start"
         /\ sCounter' = 0
         /\ spc' = [spc EXCEPT ![c] = "walking"]
    /\ UNCHANGED <<sLeft, sOwn, sReturned>>

\* _walk: this.counter++ and the awaited fileCallback for the next file
SharedWalkFile ==
    /\ UNCHANGED notShared
    /\ \E c \in Walkers :
         /\ spc[c] = "walking"
         /\ sLeft[c] > 0
         /\ sCounter' = sCounter + 1
         /\ sOwn' = [sOwn EXCEPT ![c] = sOwn[c] + 1]
         /\ sLeft' = [sLeft EXCEPT ![c] = sLeft[c] - 1]
    /\ UNCHANGED <<spc, sReturned>>

\* walk: return this.counter
SharedWalkReturn ==
    /\ UNCHANGED notShared
    /\ \E c \in Walkers :
         /\ spc[c] = "walking"
         /\ sLeft[c] = 0
         /\ sReturned' = [sReturned EXCEPT ![c] = sCounter]
         /\ spc' = [spc EXCEPT ![c] = "done"]
    /\ UNCHANGED <<sCounter, sLeft, sOwn>>

SharedNext ==
    \/ SharedWalkStart
    \/ SharedWalkFile
    \/ SharedWalkReturn

(***************************************************************************)
(* DirWalker.walk on a tree that holds symbolic links to its own root.     *)
(* fs.stat follows links, so such a link is a directory to _walk, which    *)
(* recurses into it and lists the root again under a longer path.  The     *)
(* file system resolves at most SymLoopMax links in one path (40 on Linux, *)
(* 32 on macOS); fs.stat rejects a path that crosses more with ELOOP.      *)
(***************************************************************************)
SymLoopMax == 2

\* entries of the root directory: a regular file, a symbolic link to the
\* root, a subdirectory
LoopKinds == {"file", "up", "dir"}

\* what the subdirectory holds: a file and a symbolic link to the root
SubListing == <<"file", "up">>

\* await fs.readdir(targetPath) of the directory a _walk call is in
Listing(frame) == IF frame.dir = "root" THEN lTree ELSE SubListing

\* the symbolic links in the path of the innermost _walk call
LinksIn(stack) == Len(SelectSeq(stack, LAMBDA f : f.via = "link"))

\* a loop that takes the same entry again after the recursive call returns
AfterRecursion_again(i) == i

\* for (const file of files): after the awaited recursive _walk the loop
\* goes on with the next entry
AfterRecursion(i) == i + 1

LoopInit ==
    /\ lTree \in UNION {[1..n -> LoopKinds] : n \in 0..MaxWidth}
    /\ lStack = <<>>
    /\ lpc = "start"
    /\ lEloop = FALSE

LoopIdle ==
    /\ lTree = <<>>
    /\ lStack = <<>>
    /\ lpc = "idle"
    /\ lEloop = FALSE

\* walk: _walk(targetPath) reads the root directory
LoopStart ==
    /\ UNCHANGED notLoop
    /\ lpc = "start"
    /\ lStack' = <<[dir |-> "root", i |-> 1, via |-> "call"]>>
    /\ lpc' = "walking"
    /\ UNCHANGED <<lTree, lEloop>>

\* one iteration of the for loop of the innermost _walk: fs.stat of the
\* entry; a file is reported, a directory (a link to the root included,
\* isSymbolicLink() being false on what fs.stat returns) is entered, a path
\* with too many links makes fs.stat throw, which the inner catch handles
LoopEntry ==
    /\ UNCHANGED notLoop
    /\ lpc = "walking"
    /\ LET top == lStack[Len(lStack)]
           stay == [lStack EXCEPT ![Len(lStack)].i = top.i + 1]
       IN /\ top.i <= Len(Listing(top))
          /\ LET e == Listing(top)[top.i] IN
               IF e = "file"
                 THEN /\ lStack' = stay
                      /\ UNCHANGED lEloop
               ELSE IF e = "dir"
                 THEN /\ lStack' = Append(lStack, [dir |-> "sub", i |-> 1, via |-> "dir"])
                      /\ UNCHANGED lEloop
               ELSE IF LinksIn(lStack) + 1 > SymLoopMax
                 THEN /\ lStack' = stay
                      /\ lEloop' = TRUE
                 ELSE /\ lStack' = Append(lStack, [dir |-> "root", i |-> 1, via |-> "link"])
                      /\ UNCHANGED lEloop
    /\ UNCHANGED <<lTree, lpc>>

\* the for loop of the innermost _walk is over: the call returns to the
\* loop of its caller, the outermost one to walk
LoopReturn ==
    /\ UNCHANGED notLoop
    /\ lpc = "walking"
    /\ lStack[Len(lStack)].i > Len(Listing(lStack[Len(lStack)]))
    /\ IF Len(lStack) = 1
         THEN /\ lpc' = "done"
              /\ lStack' = <<>>
         ELSE /\ lStack' = [SubSeq(lStack, 1, Len(lStack) - 1)
                              EXCEPT ![Len(lStack) - 1].i =
                                AfterRecursion(lStack[Len(lStack) - 1].i)]
              /\ UNCHANGED lpc
    /\ UNCHANGED <<lTree, lEloop>>

LoopNext ==
    \/ LoopStart
    \/ LoopEntry
    \/ LoopReturn

Init == RunInit /\ ComposerIdle /\ NpmIdle /\ MavenIdle /\ GradleIdle /\ TagIdle /\ CsvIdle /\ WalkIdle /\ DetectIdle /\ NpmInstallIdle /\ AgainIdle /\ OverlapIdle /\ SharedIdle /\ LoopIdle

Next == RunNext

Spec == Init /\ [][Next]_vars

InitComposer == RunIdle /\ ComposerInit /\ NpmIdle /\ MavenIdle /\ GradleIdle /\ TagIdle /\ CsvIdle /\ WalkIdle /\ DetectIdle /\ NpmInstallIdle /\ AgainIdle /\ OverlapIdle /\ SharedIdle /\ LoopIdle

SpecComposer == InitComposer /\ [][ComposerNext]_vars

InitNpm == RunIdle /\ ComposerIdle /\ NpmInit /\ MavenIdle /\ GradleIdle /\ TagIdle /\ CsvIdle /\ WalkIdle /\ DetectIdle /\ NpmInstallIdle /\ AgainIdle /\ OverlapIdle /\ SharedIdle /\ LoopIdle

SpecNpm == InitNpm /\ [][NpmNext]_vars

InitMaven == RunIdle /\ ComposerIdle /\ NpmIdle /\ MavenInit /\ GradleIdle /\ TagIdle /\ CsvIdle /\ WalkIdle /\ DetectIdle /\ NpmInstallIdle /\ AgainIdle /\ OverlapIdle /\ SharedIdle /\ LoopIdle

SpecMaven == InitMaven /\ [][MavenNext]_vars

InitGradle == RunIdle /\ ComposerIdle /\ NpmIdle /\ MavenIdle /\ GradleInit /\ TagIdle /\ CsvIdle /\ WalkIdle /\ DetectIdle /\ NpmInstallIdle /\ AgainIdle /\ OverlapIdle /\ SharedIdle /\ LoopIdle

SpecGradle == InitGradle /\ [][GradleNext]_vars

\* one extraction of the NPM or of the Maven extractor
InitExtract == InitNpm \/ InitMaven

ExtractNext ==
    \/ NpmStart
    \/ NpmLsClosed
    \/ NpmPkgRead
    \/ NpmLockRead
    \/ NpmCatchRead
    \/ NpmTimeout
    \/ MavenStart
    \/ MavenInstalled
    \/ MavenPomRead
    \/ MavenSpawn
    \/ MavenClosed
    \/ MavenEffRead
    \/ MavenTimeout

SpecExtract == InitExtract /\ [][ExtractNext]_vars

InitTag == RunIdle /\ ComposerIdle /\ NpmIdle /\ MavenIdle /\ GradleIdle /\ TagInit /\ CsvIdle /\ WalkIdle /\ DetectIdle /\ NpmInstallIdle /\ AgainIdle /\ OverlapIdle /\ SharedIdle /\ LoopIdle

SpecTag == InitTag /\ [][TagNext]_vars

InitCsv == RunIdle /\ ComposerIdle /\ NpmIdle /\ MavenIdle /\ GradleIdle /\ TagIdle /\ CsvInit /\ WalkIdle /\ DetectIdle /\ NpmInstallIdle /\ AgainIdle /\ OverlapIdle /\ SharedIdle /\ LoopIdle

SpecCsv == InitCsv /\ [][CsvNext]_vars

InitWalk == RunIdle /\ ComposerIdle /\ NpmIdle /\ MavenIdle /\ GradleIdle /\ TagIdle /\ CsvIdle /\ WalkInit /\ DetectIdle /\ NpmInstallIdle /\ AgainIdle /\ OverlapIdle /\ SharedIdle /\ LoopIdle

SpecWalk == InitWalk /\ [][WalkNext]_vars

InitDetect == RunIdle /\ ComposerIdle /\ NpmIdle /\ MavenIdle /\ GradleIdle /\ TagIdle /\ CsvIdle /\ WalkIdle /\ DetectInit /\ NpmInstallIdle /\ AgainIdle /\ OverlapIdle /\ SharedIdle /\ LoopIdle

SpecDetect == InitDetect /\ [][DetectNext]_vars

InitNpmInstall == RunIdle /\ ComposerIdle /\ NpmIdle /\ MavenIdle /\ GradleIdle /\ TagIdle /\ CsvIdle /\ WalkIdle /\ DetectIdle /\ NpmInstallInit /\ AgainIdle /\ OverlapIdle /\ SharedIdle /\ LoopIdle

SpecNpmInstall == InitNpmInstall /\ [][NpmInstallNext]_vars

InitAgain == InitNpmInstall \/ (InitMaven /\ mVariant = "execa")

SpecAgain == InitAgain /\ [][AgainNext]_vars

InitOverlap == RunIdle /\ ComposerIdle /\ NpmIdle /\ MavenIdle /\ GradleIdle /\ TagIdle /\ CsvIdle /\ WalkIdle /\ DetectIdle /\ NpmInstallIdle /\ AgainIdle /\ OverlapInit /\ SharedIdle /\ LoopIdle

SpecOverlap == InitOverlap /\ [][OverlapNext]_vars

InitShared == RunIdle /\ ComposerIdle /\ NpmIdle /\ MavenIdle /\ GradleIdle /\ TagIdle /\ CsvIdle /\ WalkIdle /\ DetectIdle /\ NpmInstallIdle /\ AgainIdle /\ OverlapIdle /\ SharedInit /\ LoopIdle

SpecShared == InitShared /\ [][SharedNext]_vars

InitLoop == RunIdle /\ ComposerIdle /\ NpmIdle /\ MavenIdle /\ GradleIdle /\ TagIdle /\ CsvIdle /\ WalkIdle /\ DetectIdle /\ NpmInstallIdle /\ AgainIdle /\ OverlapIdle /\ SharedIdle /\ LoopInit

SpecLoop == InitLoop /\ [][LoopNext]_vars

\* every await of the walk settles: a readdir, a stat and a file callback
\* each complete, so the walk takes its next step whenever it has one
FairSpecLoop ==
    /\ SpecLoop
    /\ WF_vars(LoopNext)

\* The event loop runs every continuation that is ready; when (and whether)
\* the npm subprocess exits, and whether the timer wins, is up to the
\* environment.
FairSpecNpm ==
    /\ SpecNpm
    /\ WF_vars(NpmStart)
    /\ WF_vars(NpmPkgRead)
    /\ WF_vars(NpmLockRead)
    /\ WF_vars(NpmCatchRead)

(***************************************************************************)
(* C1: in the streaming run, whatever each project's extraction and sink   *)
(* append do (return or throw), the handler of every detected project is   *)
(* invoked and runs to its end: a failed project never keeps a later       *)
(* sibling from being extracted and appended.                              *)
(***************************************************************************)
ManifestIndices == {i \in 1..Len(files) : MatchingTypes(files[i]) # {}}

FailedResults == {"extractFailed", "appendFailed"}

C1_SiblingsSurviveFailure ==
    rpc = "done" =>
        /\ ManifestIndices \subseteq extractCalls
        /\ DOMAIN handlerResult = ManifestIndices

C1_Witness ==
    /\ rpc = "done"
    /\ \E i, j \in ManifestIndices :
          /\ i < j
          /\ handlerResult[i] \in FailedResults
          /\ handlerResult[j] = "appended"

(***************************************************************************)
(* C2: ComposerExtractor.extractDependencies tries composer show, then     *)
(* composer.lock, then composer.json, and returns the records of the first *)
(* strategy that yields at least one dependency; a strategy that succeeds  *)
(* with zero dependencies does not stop the chain; when every strategy is  *)
(* exhausted the result is the empty list.                                 *)
(***************************************************************************)
StrategyRank(st) == CASE st = "show" -> 1 [] st = "lock" -> 2 [] st = "manifest" -> 3

\* what each strategy yields when it succeeds, and nothing when it fails
ShowYield ==
    IF cShowOut.st = "ok" /\ ~HasNull(cShowOut.installed)
      THEN PushAll("show", cShowOut.installed, FALSE) ELSE <<>>

LockYield ==
    IF cLock.exists /\ cLock.ok /\ cLock.hasPackages /\ ~HasNull(cLock.packages)
      THEN PushAll("lock", cLock.packages, FALSE) ELSE <<>>

ManifestYield ==
    IF cJson.exists /\ cJson.ok
      THEN RequireDeps(cJson.require) \o RequireDevDeps(cJson.requireDev) ELSE <<>>

FirstYielding ==
    IF ShowYield # <<>> THEN ShowYield
    ELSE IF LockYield # <<>> THEN LockYield
    ELSE ManifestYield

C2_FirstYieldingStrategyWins ==
    (cpc = "done" /\ ~cSkipped /\ cJson.exists) =>
        /\ \A i, j \in 1..Len(cTried) :
              i < j => StrategyRank(cTried[i]) < StrategyRank(cTried[j])
        /\ cResult = FirstYielding

(***************************************************************************)
(* C7: when composer.json does not exist in the project directory, the     *)
(* result is the empty list and no external command (neither install nor   *)
(* show) is invoked.                                                       *)
(***************************************************************************)
C7_NoManifestNoCommand ==
    (cpc = "done" /\ ~cJson.exists) => (cResult = <<>> /\ cCommands = <<>>)

(***************************************************************************)
(* C8: for every project directory whose path has a segment equal to the   *)
(* vendored directory name, at any position of the path (first and last    *)
(* segment included), extractDependencies short-circuits to the skipped    *)
(* outcome: no dependency is returned and no install or resolver command   *)
(* is run.                                                                 *)
(***************************************************************************)
C8_VendoredSegmentSkips ==
    (cpc = "done" /\ HasSegment(cPath, "vendor")) =>
        (cSkipped /\ cResult = <<>> /\ cCommands = <<>>)

(***************************************************************************)
(* C3: whenever package-lock.json exists and is well-formed, every record  *)
(* NpmExtractor.extractDependencies returns comes from the lockfile and    *)
(* the manifest fallback is not invoked, whatever npm ls did.              *)
(***************************************************************************)
C3_LockfileTakesPrecedence ==
    (npc = "done" /\ nLock.exists /\ nLock.ok /\ nLock.shape # "none") =>
        /\ \A i \in 1..Len(nResult) : nResult[i].src = "lock"
        /\ \A i \in 1..Len(nTried) : nTried[i] # "manifest"

(***************************************************************************)
(* C4: every extractDependencies call made by the orchestrator (no timeout *)
(* wrapper) eventually returns, even when the external command it started  *)
(* never exits.                                                            *)
(***************************************************************************)
C4_ExtractionReturns == (nCall = "none") ~> (npc = "done")

(***************************************************************************)
(* C5.  Whenever a call of extractDependenciesWithTimeout has failed with  *)
(* the timeout error, the subprocess started by that extraction has been   *)
(* terminated and none is started or left running afterwards, wherever the *)
(* extraction stood when the timer fired (the file reads before the spawn  *)
(* included).                                                              *)
(***************************************************************************)
C5_TimeoutLeavesNoSubprocess ==
    (mVariant = "spawn" /\ mCall = "timedOut") => mProc # "running"

(***************************************************************************)
(* C9.  With a well-formed pom.xml, when the effective-POM command fails   *)
(* or times out, or its output file is absent when it ends, the returned   *)
(* records are exactly the dependencies declared in the raw pom.xml,       *)
(* whatever the directory held before (a pre-existing effective-pom.xml    *)
(* included).                                                              *)
(***************************************************************************)
C9_FallbackIsRawPom ==
    (/\ mpc = "done"
     /\ mPom.exists /\ mPom.ok
     /\ (mCmd \in {"failed", "timedOut"} \/ (mCmd = "ok" /\ ~mOutput)))
    => mResult = XmlDeps("pom", mPom)

(***************************************************************************)
(* C10.  When extractDependencies has returned, the effective-pom.xml the  *)
(* command produced no longer exists, on every path after the generation   *)
(* (the paths where reading or parsing the generated file fails included). *)
(***************************************************************************)
C10_EffectivePomRemoved ==
    (mpc = "done" /\ mProduced) => ~mEff.exists

(***************************************************************************)
(* C6.  When gradle dependencies fails or times out and the build file is  *)
(* readable, the returned list is the regular-expression scan of the build *)
(* file, with isDev set for the test configurations.                       *)
(***************************************************************************)
C6_FallbackIsFileScan ==
    (gpc = "done" /\ gCmd \in {"failed", "timedOut"} /\ gFile.exists /\ gFile.readable)
    => gResult = FileScanDeps(gFile.decls)

(***************************************************************************)
(* C11.  Every record emitted for a project carries a projectPath equal to *)
(* the project's relativePath (the manifest's path relative to the         *)
(* repository root), whichever strategy produced it.                       *)
(***************************************************************************)
C11_ProjectPathIsManifestPath ==
    tpc = "done" => tProjectPath = tRel

RECURSIVE WrittenRecords(_)
\* the records of the batches that were written, in call and batch order
WrittenRecords(calls) ==
    IF calls = <<>> THEN <<>>
    ELSE (IF Head(calls).batch.isArray /\ Head(calls).ok
            THEN Head(calls).batch.deps ELSE <<>>)
         \o WrittenRecords(Tail(calls))

(***************************************************************************)
(* C12.  After a run that wrote at least one dependency, the CSV file      *)
(* exists at exactly the output path the user gave, and finalizeCsv        *)
(* returns that path.                                                      *)
(***************************************************************************)
C12_OutputAtGivenPath ==
    (kpc = "finalized" /\ WrittenRecords(kCalls) # <<>>)
    => (kOption \in DOMAIN kFiles /\ kReturned = kOption)

(***************************************************************************)
(* C13.  After initializeCsv and any sequence of awaited appends the file  *)
(* holds the header line once, as first line, followed by one row per      *)
(* appended record, batches in call order and records in batch order; an   *)
(* empty or non-array batch leaves the file unchanged.                     *)
(***************************************************************************)
C13_HeaderThenRowsInOrder ==
    kInitialized =>
        /\ kOutputPath \in DOMAIN kFiles
        /\ kFiles[kOutputPath] =
             <<headers>> \o [i \in 1..Len(WrittenRecords(kCalls)) |->
                               <<WrittenRecords(kCalls)[i].projectType,
                                 WrittenRecords(kCalls)[i].projectPath,
                                 WrittenRecords(kCalls)[i].dependencyName,
                                 WrittenRecords(kCalls)[i].dependencyVersion>>]

C13_Witness ==
    /\ kpc = "finalized"
    /\ Len(kCalls) = 3
    /\ \E i, j, e \in 1..3 :
         /\ i < j
         /\ kCalls[i].ok /\ kCalls[j].ok
         /\ Len(kCalls[i].batch.deps) = 2 /\ Len(kCalls[j].batch.deps) = 1
         /\ kCalls[i].batch.deps[1] # kCalls[i].batch.deps[2]
         /\ Len(kCalls[e].batch.deps) = 0
    /\ Len(kFiles[kOutputPath]) = 4

(***************************************************************************)
(* C14 as stated.  run rejects if and only if the input root path does not *)
(* exist; no other error (extraction failure, sink failure) rejects it.    *)
(***************************************************************************)
C14_RejectsOnlyForMissingRoot ==
    /\ rpc = "rejected" => ~repoExists
    /\ rpc = "done" => repoExists

(***************************************************************************)
(* C14 as amended.  run rejects if and only if the input root path does    *)
(* not exist or initializeCsv fails; a failing extraction or a failing     *)
(* append of a project never rejects it, and the run of an existing root   *)
(* with an initialized sink goes on to the end of the walk.                *)
(***************************************************************************)
C14_RejectsForMissingRootOrSinkInit ==
    /\ rpc = "rejected" => (~repoExists \/ ~initialized)
    /\ rpc \in {"walk", "extract", "append", "done"} => (repoExists /\ initialized)

C14_Witness ==
    /\ rpc = "done"
    /\ repoExists
    /\ \E i, j \in DOMAIN handlerResult :
         handlerResult[i] = "extractFailed" /\ handlerResult[j] = "appendFailed"

\* the entry of the tree at a path
EntryAt(p) ==
    IF Len(p) = 1 THEN wTree.entries[p[1]] ELSE wTree.entries[p[1]].children[p[2]]

LinkKinds == {"linkFile", "linkDir", "linkBroken"}

\* the path is a symbolic link or lies behind one
ThroughLink(p) ==
    /\ p # <<>>
    /\ \/ wTree.entries[p[1]].kind \in LinkKinds
       \/ Len(p) = 2 /\ EntryAt(p).kind \in LinkKinds

(***************************************************************************)
(* C15.  The walk never follows a symbolic link: an entry that is a        *)
(* symbolic link is neither traversed nor reported to the file callback,   *)
(* and is counted neither as a file nor as an error.                       *)
(***************************************************************************)
C15_LinksAreSkipped ==
    wpc = "done" =>
        /\ \A k \in 1..Len(wCalled) : ~ThroughLink(wCalled[k])
        /\ \A k \in 1..Len(wErrored) : ~ThroughLink(wErrored[k])

\* the directories the walk can list: ordinary directories whose stat and
\* readdir succeed
ReadableDirs ==
    {i \in 1..Len(wTree.entries) :
        LET d == wTree.entries[i] IN d.kind = "dir" /\ ~d.statFails /\ ~d.readFails}

\* paths of the entries in the root directory and in readable directories
ReachablePaths ==
    {<<i>> : i \in 1..Len(wTree.entries)}
    \cup UNION {{<<i, j>> : j \in 1..Len(wTree.entries[i].children)} : i \in ReadableDirs}

RegularFiles == {p \in ReachablePaths : EntryAt(p).kind = "file" /\ ~EntryAt(p).statFails}

\* the root when its readdir fails, entries whose stat fails, directories
\* whose readdir fails
FailingPaths ==
    (IF wTree.readFails THEN {<<>>} ELSE {})
    \cup {p \in ReachablePaths :
            EntryAt(p).kind \in {"file", "dir"} /\ (EntryAt(p).statFails \/ EntryAt(p).readFails)}

Occurrences(seq, p) == Cardinality({k \in 1..Len(seq) : seq[k] = p})

(***************************************************************************)
(* C16.  For any tree and any failing directory reads and stat calls, when *)
(* walk has returned: the file callback was invoked exactly once for every *)
(* regular file reachable through readable directories; the error callback *)
(* was invoked once per failing directory or entry, and siblings and the   *)
(* rest of the tree were still walked; the value returned equals the       *)
(* number of file-callback invocations.                                    *)
(***************************************************************************)
C16_WalkSurvivesErrors ==
    wpc = "done" =>
        /\ \A p \in RegularFiles : Occurrences(wCalled, p) = 1
        /\ \A p \in FailingPaths : Occurrences(wErrored, p) = 1
        /\ \A k \in 1..Len(wErrored) : Occurrences(wErrored, wErrored[k]) = 1
        /\ wReturned = Len(wCalled)

C16_Witness ==
    /\ wpc = "done"
    /\ Len(wTree.entries) = 2
    /\ wTree.entries[1].kind = "dir" /\ wTree.entries[1].readFails
    /\ wTree.entries[2].kind = "dir" /\ <<2, 1>> \in RegularFiles
    /\ wCalled = <<(<<2, 1>>)>>
    /\ wErrored = <<(<<1>>)>>
    /\ wReturned = 1

\* the manifest basenames and their ecosystems, as the claim lists them
ManifestEcosystem(name) ==
    CASE name = "package.json"     -> "NPM"
      [] name = "pom.xml"          -> "Maven"
      [] name = "build.gradle"     -> "Gradle"
      [] name = "build.gradle.kts" -> "Gradle"
      [] name = "composer.json"    -> "Composer"
      [] OTHER                     -> "none"

MatchingFiles == {i \in 1..Len(dFiles) : ManifestEcosystem(dFiles[i][Len(dFiles[i])]) # "none"}

ProjectsOfFile(i) == {k \in 1..Len(dProjects) : dProjects[k].relativePath = dFiles[i]}

(***************************************************************************)
(* C17.  When detectProjects or detectProjectsStreaming has returned:      *)
(* every walked file whose basename is a manifest name has yielded exactly *)
(* one Project, of the matching ecosystem, whose directory is the          *)
(* manifest's containing directory and whose relativePath is the file's    *)
(* path; any other file has yielded none; and the list size / returned     *)
(* count is the number of matching files, not of files walked, also when a *)
(* project handler threw.                                                  *)
(***************************************************************************)
C17_OneProjectPerManifest ==
    dpc = "done" =>
        /\ \A i \in MatchingFiles :
             /\ Cardinality(ProjectsOfFile(i)) = 1
             /\ \A k \in ProjectsOfFile(i) :
                  /\ dProjects[k].type = ManifestEcosystem(dFiles[i][Len(dFiles[i])])
                  /\ dProjects[k].path = repoPath \o SubSeq(dFiles[i], 1, Len(dFiles[i]) - 1)
                  /\ dProjects[k].file = dFiles[i][Len(dFiles[i])]
        /\ \A i \in (1..Len(dFiles)) \ MatchingFiles : ProjectsOfFile(i) = {}
        /\ dResult = Cardinality(MatchingFiles)

C17_Witness ==
    /\ dpc = "done"
    /\ dMode = "streaming"
    /\ Len(dFiles) = 3
    /\ Cardinality(MatchingFiles) = 2
    /\ dThrown # {}
    /\ dResult = 2
    /\ \E i \in MatchingFiles : Len(dFiles[i]) = 2

C19_BadLockFallsToManifest ==
    (/\ xpc = "done" /\ ~HasSegment(xPath, "node_modules")
     /\ xPkg.exists /\ xPkg.ok /\ xLockAtStart /\ ~xLock.ok)
    => /\ Len(xResult) = Len(xPkg.dependencies) + Len(xPkg.devDependencies)
       /\ \A i \in 1..Len(xResult) : xResult[i].src = "manifest"

(***************************************************************************)
(* C20.  A project with a package.json and no lockfile when extraction     *)
(* starts yields exactly one record per entry of the manifest's            *)
(* dependencies (isDev false) and devDependencies (isDev true), with the   *)
(* declared range recorded verbatim as the version.                        *)
(***************************************************************************)
C20_NoLockYieldsManifest ==
    (/\ xpc = "done" /\ ~HasSegment(xPath, "node_modules")
     /\ xPkg.exists /\ xPkg.ok /\ ~xLockAtStart)
    => /\ Len(xResult) = Len(xPkg.dependencies) + Len(xPkg.devDependencies)
       /\ \A i \in 1..Len(xPkg.dependencies) :
            /\ xResult[i].src = "manifest"
            /\ xResult[i].name = <<xPkg.dependencies[i].name>>
            /\ xResult[i].version = xPkg.dependencies[i].value
            /\ xResult[i].isDev = FALSE
       /\ \A i \in 1..Len(xPkg.devDependencies) :
            LET r == xResult[Len(xPkg.dependencies) + i] IN
            /\ r.src = "manifest"
            /\ r.name = <<xPkg.devDependencies[i].name>>
            /\ r.version = xPkg.devDependencies[i].value
            /\ r.isDev = TRUE

\* the names, versions and dev flags of a list (the version is the record
\* itself for Maven, whose records carry none in this model)
Triples(list) ==
    {[name |-> list[i].name,
      version |-> IF "version" \in DOMAIN list[i] THEN list[i].version ELSE "",
      isDev |-> list[i].isDev] : i \in 1..Len(list)}

SameDependencies(l1, l2) == Len(l1) = Len(l2) /\ Triples(l1) = Triples(l2)

(***************************************************************************)
(* C21.  A second extractDependencies call on the same project directory,  *)
(* the external command ending as it did the first time, returns the same  *)
(* dependencies as the first call (names, versions and dev flags, order    *)
(* aside), whatever package-lock.json or effective-pom.xml the first call  *)
(* left in the directory.                                                  *)
(***************************************************************************)
C21_SecondCallSameList ==
    /\ (aRun = 2 /\ xpc = "done") => SameDependencies(aFirst, xResult)
    /\ (aRun = 2 /\ mpc = "done") => SameDependencies(aFirst, mResult)

\* the first call ran npm install, which wrote the lockfile the second call
\* found and read without installing again
C21_Witness ==
    /\ aRun = 2
    /\ xpc = "done"
    /\ aOut = "ok"
    /\ xLockAtStart
    /\ xCommands = <<>>
    /\ xResult # <<>>

(***************************************************************************)
(* C22.  The list returned by an extractor chain holds the records of      *)
(* exactly one strategy: a fallback contributes records only if the        *)
(* previous strategy contributed none, also when the previous strategy     *)
(* fails after it has pushed some records.                                 *)
(***************************************************************************)
C22_OneStrategyPerList ==
    cpc = "done" => \A i, j \in 1..Len(cResult) : cResult[i].src = cResult[j].src

\* file indices whose handler has started and not yet ended
InFlight == extractCalls \ DOMAIN handlerResult

(***************************************************************************)
(* C23.  In the streaming run the handler of a project completes before    *)
(* the walker visits the next file: at most one project is in flight, it   *)
(* is the project of the file the walker is at, and the rows of the sink   *)
(* are grouped by project, the batches in discovery order.                 *)
(***************************************************************************)
C23_OneProjectInFlight ==
    /\ Cardinality(InFlight) <= 1
    /\ \A i \in InFlight : i = idx /\ rpc \in {"extract", "append"}
    /\ rpc \notin {"extract", "append"} => InFlight = {}
    /\ \A k \in 1..(Len(csvRows) - 1) : csvRows[k] <= csvRows[k + 1]

\* two projects have written their batches, one of them of several rows,
\* and a third handler is in flight
C23_Witness ==
    /\ rpc = "extract"
    /\ Cardinality({csvRows[k] : k \in 1..Len(csvRows)}) = 2
    /\ Len(csvRows) > 2

\* the sink has been initialized whenever the run is past initializeCsv, an
\* append was only ever started then, and finalizeCsv was called only after
\* the walk with no handler in flight and something appended
SinkOrderState ==
    /\ (rpc \in {"walk", "extract", "append", "done"} \/ appendCalls # {}) => initialized
    /\ finalized => (rpc = "done" /\ InFlight = {} /\ Len(csvRows) > 0)

\* after finalizeCsv nothing is appended and the sink is not finalized again
SinkOrderStep ==
    finalized => UNCHANGED <<rpc, finalized, csvRows, appendCalls, initialized>>

(***************************************************************************)
(* C27.  The sink is called in the order initializeCsv, then zero or more  *)
(* appendDependenciesToCsv, then at most one finalizeCsv: no append before *)
(* initializeCsv has completed, none after finalizeCsv, and finalizeCsv    *)
(* only after every handler has completed and only when at least one       *)
(* dependency was appended.                                                *)
(***************************************************************************)
C27_SinkCallOrder == []SinkOrderState /\ [][SinkOrderStep]_vars

\* a finalized run of three projects, one appended, one failed to append,
\* one without dependencies
C27_Witness ==
    /\ finalized
    /\ \E i, j, k \in DOMAIN handlerResult :
         /\ handlerResult[i] = "appended"
         /\ handlerResult[j] = "appendFailed"
         /\ handlerResult[k] = "empty"

(***************************************************************************)
(* C28.  At every point totalDependencies is the number of records         *)
(* appended to the sink so far and totalProjects the number of handlers    *)
(* started, which at the end is the count detectProjectsStreaming          *)
(* returns; a project whose extraction or append failed adds nothing.      *)
(***************************************************************************)
C28_TotalsMatchSink ==
    /\ totalDependencies = Len(csvRows)
    /\ totalProjects = Cardinality(extractCalls)
                       + Cardinality({i \in DOMAIN handlerResult : handlerResult[i] = "unsupported"})
    /\ rpc = "done" => totalProjects = projectCount
    /\ \A k \in 1..Len(csvRows) :
         csvRows[k] \in DOMAIN handlerResult => handlerResult[csvRows[k]] = "appended"
    /\ \A i \in DOMAIN handlerResult :
         handlerResult[i] # "appended" => \A k \in 1..Len(csvRows) : csvRows[k] # i

\* a finished run in which one project appended and another failed to
\* append after a successful extraction
C28_Witness ==
    /\ rpc = "done"
    /\ totalDependencies > 0
    /\ \E i, j \in DOMAIN handlerResult :
         /\ handlerResult[i] = "appended"
         /\ handlerResult[j] = "appendFailed"
    /\ \E i \in DOMAIN handlerResult : handlerResult[i] = "extractFailed"

(***************************************************************************)
(* C24.  With two overlapping extractDependenciesWithTimeout calls the     *)
(* timer of one call kills no subprocess but the one that call started:    *)
(* the subprocess of the other call keeps running and the other call's     *)
(* result is the one its own subprocess gives.                             *)
(***************************************************************************)
C24_TimeoutKillsOwnSubprocessOnly ==
    \A c \in Calls :
        /\ oKilledBy[c] \in {0, c}
        /\ oCall[c] # "timedOut" => oProc[c] # "killed"
        /\ (oCall[c] = "resolved" /\ oResult[c] \in {"pom", "empty"} /\ oProc[c] = "closed")
             => oKilledBy[c] = 0

\* call 1 has timed out and its subprocess has been killed while call 2 is
\* pending with its subprocess running
C24_Witness ==
    /\ oCall[1] = "timedOut"
    /\ oKilledBy[1] = 1
    /\ oProc[1] = "killed"
    /\ oCall[2] = "pending"
    /\ oProc[2] = "running"

\* the part of a key after its last node_modules/ segment (the whole key
\* when it has none)
AfterLastNodeModules(key) ==
    LET occ == {i \in 1..(Len(key) - 1) :
                  /\ key[i] = "node_modules" /\ key[i + 1] = "/"
                  /\ (i = 1 \/ key[i - 1] = "/")}
    IN IF occ = {} THEN key
       ELSE SubSeq(key, (CHOOSE i \in occ : \A j \in occ : j <= i) + 2, Len(key))

\* the entries of a packages map other than the root entry
NonRoot(packages) == SelectSeq(packages, LAMBDA e : e.key # <<>>)

(***************************************************************************)
(* C25.  On a flat path-keyed lockfile the root entry (empty key) yields   *)
(* no record and every other key yields exactly one record, in order,      *)
(* named by the part of the key after its last node_modules/ segment, its  *)
(* isDev being the entry's own dev marker.                                 *)
(***************************************************************************)
C25_FlatLockOneRecordPerKey ==
    (npc = "done" /\ nLock.ok /\ nLock.shape = "v3"
       /\ nTried # <<>> /\ nTried[Len(nTried)] = "lock")
    => LET entries == NonRoot(nLock.v3) IN
       /\ Len(nResult) = Len(entries)
       /\ \A i \in 1..Len(entries) :
            /\ nResult[i].src = "lock"
            /\ nResult[i].name = AfterLastNodeModules(entries[i].key)
            /\ nResult[i].isDev = entries[i].dev

\* a lockfile with the root entry and a nested key has been processed
C25_Witness ==
    /\ npc = "done"
    /\ nLock.ok
    /\ nLock.shape = "v3"
    /\ nTried # <<>>
    /\ nTried[Len(nTried)] = "lock"
    /\ \E i, j \in 1..Len(nLock.v3) :
         /\ nLock.v3[i].key = <<>>
         /\ nLock.v3[j].key = <<"node_modules", "/", "jest", "/", "node_modules", "/", "lodash">>
         /\ nLock.v3[j].dev
    /\ Len(nResult) = 1

(***************************************************************************)
(* C26.  appendDependenciesToCsv or finalizeCsv called before a successful *)
(* initializeCsv fails with an error and writes nothing; the initialized   *)
(* flag is true only once the header has been written and stays false      *)
(* when initializeCsv fails.                                               *)
(***************************************************************************)
C26_UseBeforeInitializeRejected ==
    /\ ~kInitialized =>
         /\ DOMAIN kFiles = {}
         /\ kReturned = <<>>
         /\ kpc # "finalized"
         /\ Len(SelectSeq(kRejected, LAMBDA c : c = "append")) = Len(kCalls)
         /\ \A i \in 1..Len(kCalls) : ~kCalls[i].ok
    /\ kInitialized =>
         /\ kOutputPath \in DOMAIN kFiles
         /\ Len(kFiles[kOutputPath]) >= 1
         /\ kFiles[kOutputPath][1] = headers
    /\ kpc = "failed" => ~kInitialized

\* initializeCsv has failed, then an append of a non-empty batch and a
\* finalizeCsv were rejected
C26_Witness ==
    /\ kpc = "failed"
    /\ kRejected = <<"append", "finalize">>
    /\ Len(kCalls) = 1
    /\ kCalls[1].batch.isArray
    /\ Len(kCalls[1].batch.deps) > 0

(***************************************************************************)
(* C30.  walk returns the number of file callbacks that call invoked, also *)
(* when two walk calls on the same DirWalker instance overlap.             *)
(***************************************************************************)
C30_WalkReturnsOwnCount ==
    \A c \in Walkers : spc[c] = "done" => sReturned[c] = sOwn[c]

(***************************************************************************)
(* C29.  DirWalker.walk terminates on every finite file tree, also when    *)
(* the tree holds a symbolic link that points to one of its own ancestor   *)
(* directories.                                                            *)
(***************************************************************************)
C29_WalkTerminates == <>(lpc = "done")

\* a walk has returned on a tree with a link to its root, after it went
\* through the link until fs.stat rejected the path
C29_Witness ==
    /\ lpc = "done"
    /\ lEloop
    /\ \E i \in 1..Len(lTree) : lTree[i] = "up"

====
